---- MODULE Spec2Model ----
(***************************************************************************)
(* A model of the chat visual (src/src/visual.ts): the send pipeline       *)
(* sendMessage -> callApi -> {handleStreamResponse | simulateTypingEffect},*)
(* the retry wrapper callApiWithRetry, and the message slots they write.   *)
(*                                                                         *)
(* Strings are sequences of atoms.  An atom is a piece of text that no     *)
(* operation of the program cuts in two: a marker the code searches for    *)
(* (includes / startsWith), a separator (" " and "\n"), a JSON document,   *)
(* or a word of free text.  Concatenation is \o, includes(x) is membership *)
(* of the atom x, startsWith(x) is a test of the first atom.  The source's *)
(* Chinese string literals are written as ASCII atoms; each definition     *)
(* names the literal it stands for.                                        *)
(*                                                                         *)
(* One action is one run-to-completion segment of the code: from an event  *)
(* (a click, a settled promise, a timer) to the next await.                *)
(***************************************************************************)
EXTENDS Integers, Sequences, FiniteSets, TLC

\* ------------------------------------------------------------------ bounds

\* Exchanges that may be in flight at once.
MaxSends == 2
\* Largest maxRetries handed to callApiWithRetry.
MaxRetriesBound == 5
\* Lines of an event-stream body.
MaxLines == 2

\* ------------------------------------------------------- string literals

\* "网络连接失败" (visual.ts:223, 289, 437)
NetFail == "net_conn_failed"
\* "Failed to fetch" (visual.ts:289, 435)
FailedToFetch == "Failed to fetch"
\* "请求超时" (visual.ts:225, 434)
ReqTimeout == "request_timeout"
\* "请先配置API URL" (visual.ts:310)
ConfigMissing == "configure_api_url_first"
\* "API调用失败" (visual.ts:352)
ApiCallFailed == "api_call_failed"
\* "未知错误" (visual.ts:351)
UnknownError == "unknown_error"
\* "收到空响应" (visual.ts:196, 216, 218)
EmptySentinel == "empty_response_received"
\* "抱歉，没有收到有效回复，请重试。" (visual.ts:219)
NoValidReply == "no_valid_reply_please_retry"
\* "正在连接..." (visual.ts:208)
Connecting == "connecting"
\* "收到回复，但内容为空" (visual.ts:394)
ReplyButEmpty == "reply_but_content_empty"
\* "收到响应，但内容为空" (visual.ts:429)
ResponseButEmpty == "response_but_content_empty"
\* "无法读取流式响应" (visual.ts:115)
CannotReadStream == "cannot_read_stream"
\* "跨域请求被阻止，请确保API Gateway配置了正确的CORS策略" (visual.ts:439)
CorsBlocked == "cross_origin_blocked"
\* "请求配置错误，请检查API URL格式和请求参数" (visual.ts:441)
RequestConfigError == "request_config_error"

\* ------------------------------------------------------- string helpers

Range(s) == {s[i] : i \in 1..Len(s)}

\* String.prototype.includes for a needle that is one atom.
Includes(s, a) == a \in Range(s)

\* String.prototype.startsWith for a prefix that is one atom.
StartsWith(s, a) == Len(s) >= 1 /\ s[1] = a

WhiteSpace == {" ", "\n"}

RECURSIVE TrimStart(_)
TrimStart(s) ==
    IF s = <<>> THEN <<>>
    ELSE IF s[1] \in WhiteSpace THEN TrimStart(Tail(s)) ELSE s

RECURSIVE TrimEnd(_)
TrimEnd(s) ==
    IF s = <<>> THEN <<>>
    ELSE IF s[Len(s)] \in WhiteSpace THEN TrimEnd(SubSeq(s, 1, Len(s) - 1)) ELSE s

\* String.prototype.trim
Trim(s) == TrimEnd(TrimStart(s))

\* String.prototype.split(sep): the pieces between the separators; always
\* at least one piece, and an empty piece where two separators touch.
RECURSIVE SplitFrom(_, _, _, _)
SplitFrom(s, sep, i, cur) ==
    IF i > Len(s) THEN <<cur>>
    ELSE IF s[i] = sep THEN <<cur>> \o SplitFrom(s, sep, i + 1, <<>>)
    ELSE SplitFrom(s, sep, i + 1, Append(cur, s[i]))

Split(s, sep) == SplitFrom(s, sep, 1, <<>>)

\* ------------------------------------------------------------ JSON values

\* A parsed JSON document.  A field that is absent and a field that holds ""
\* are both <<>> here: the code reads them only through || and if (...),
\* which treat the two alike.  present lists the fields the document has.
JsonObject(present, fields) ==
    [kind |-> "object", present |-> present,
     cdc |-> fields.cdc, content |-> fields.content, text |-> fields.text,
     message |-> fields.message, response |-> fields.response,
     reply |-> fields.reply, error |-> fields.error,
     statusCode |-> fields.statusCode, status |-> fields.status,
     success |-> fields.success]

NoFields ==
    [cdc |-> <<>>, content |-> <<>>, text |-> <<>>, message |-> <<>>,
     response |-> <<>>, reply |-> <<>>, error |-> <<>>,
     statusCode |-> "absent", status |-> "absent", success |-> "absent"]

JsonNull == [JsonObject({}, NoFields) EXCEPT !.kind = "null"]
JsonScalar == [JsonObject({}, NoFields) EXCEPT !.kind = "scalar"]

\* The JSON documents of the model, each one atom, and what JSON.parse
\* gives for it.  cdc is choices[0].delta.content.
JsonDocs ==
    {"{content:Hel}", "{content:lo}", "{choices:[{delta:{content:a}}],content:b}",
     "{text:t,message:m}", "{}", "null", "7",
     "{statusCode:200,response:ok}", "{error:bad input}", "{response:hi}",
     "{statusCode:200}", "{statusCode:200,error:bad input}",
     "{success:true,response:,message:m,reply:r}",
     "{status:200,reply:r,content:,text:t}",
     "{statusCode:200,content:,text:t}"}

JsonValue(doc) ==
    CASE doc = "{content:Hel}" ->
            JsonObject({"content"}, [NoFields EXCEPT !.content = <<"Hel">>])
      [] doc = "{content:lo}" ->
            JsonObject({"content"}, [NoFields EXCEPT !.content = <<"lo">>])
      [] doc = "{choices:[{delta:{content:a}}],content:b}" ->
            JsonObject({"choices", "content"},
                       [NoFields EXCEPT !.cdc = <<"a">>, !.content = <<"b">>])
      [] doc = "{text:t,message:m}" ->
            JsonObject({"text", "message"},
                       [NoFields EXCEPT !.text = <<"t">>, !.message = <<"m">>])
      [] doc = "{}" -> JsonObject({}, NoFields)
      [] doc = "null" -> JsonNull
      [] doc = "7" -> JsonScalar
      [] doc = "{statusCode:200,response:ok}" ->
            JsonObject({"statusCode", "response"},
                       [NoFields EXCEPT !.statusCode = "200", !.response = <<"ok">>])
      [] doc = "{error:bad input}" ->
            JsonObject({"error"}, [NoFields EXCEPT !.error = <<"bad", " ", "input">>])
      [] doc = "{response:hi}" ->
            JsonObject({"response"}, [NoFields EXCEPT !.response = <<"hi">>])
      [] doc = "{statusCode:200}" ->
            JsonObject({"statusCode"}, [NoFields EXCEPT !.statusCode = "200"])
      [] doc = "{statusCode:200,error:bad input}" ->
            JsonObject({"statusCode", "error"},
                       [NoFields EXCEPT !.statusCode = "200",
                                        !.error = <<"bad", " ", "input">>])
      [] doc = "{success:true,response:,message:m,reply:r}" ->
            JsonObject({"success", "response", "message", "reply"},
                       [NoFields EXCEPT !.success = "true", !.message = <<"m">>,
                                        !.reply = <<"r">>])
      [] doc = "{status:200,reply:r,content:,text:t}" ->
            JsonObject({"status", "reply", "content", "text"},
                       [NoFields EXCEPT !.status = "200", !.reply = <<"r">>,
                                        !.text = <<"t">>])
      [] doc = "{statusCode:200,content:,text:t}" ->
            JsonObject({"statusCode", "content", "text"},
                       [NoFields EXCEPT !.statusCode = "200", !.text = <<"t">>])

\* JSON.parse(s): s is a JSON text iff, leading and trailing white space
\* aside, it is one document; anything else throws SyntaxError.
JsonParses(s) == Len(Trim(s)) = 1 /\ Trim(s)[1] \in JsonDocs
JsonParse(s) == JsonValue(Trim(s)[1])

\* a || b on strings: a when it is non-empty, else b.
Or(a, b) == IF a /= <<>> THEN a ELSE b

\* ----------------------------------------------------------------- errors

Err(name, message) == [name |-> name, message |-> message]
NoError == Err("", <<>>)

\* ------------------------------------------------------------------ state

VARIABLES
    apiSettings,    \* this.apiSettings: [apiUrl, apiKey, authType]
    messages,       \* this.messages: the in-memory ChatMessage list
    dom,            \* the message elements of messagesContainer
    input,          \* messageInput.value
    ex              \* the exchanges: one frame per running async call chain

vars == <<apiSettings, messages, dom, input, ex>>

Exchanges == 1..MaxSends

\* A fetch Response: ok, status, statusText, the content-type header (<<>>
\* when the header is missing) and the body text.
NoResp == [ok |-> FALSE, status |-> "", statusText |-> "",
           contentType |-> <<>>, body |-> <<>>]

NoOutcome == [kind |-> "none", text |-> <<>>, error |-> NoError]

\* The locals of one call chain sendMessage / callApiWithRetry -> callApi ->
\* handleStreamResponse / simulateTypingEffect, with the logs the
\* properties read (calls, sleeps, notices, frags, ...).
IdleFrame ==
    [pc |-> "idle",             \* the await the chain is suspended at
     caller |-> "none",         \* "send": sendMessage, "retry": callApiWithRetry
     message |-> <<>>,          \* messageText
     responseId |-> 0,          \* sendMessage's responseId / the loadingId
     messageId |-> 0,           \* callApi's messageId parameter (0: undefined)
     maxRetries |-> 0,
     attempt |-> 0,
     lastError |-> NoError,
     config |-> [apiUrl |-> "", apiKey |-> "", authType |-> ""],
                                \* this.apiSettings when the chain began
     calls |-> 0,               \* fetch invocations
     fetches |-> <<>>,          \* how each fetch settled, in order
     sleeps |-> <<>>,           \* the delays of the backoff timers, in order
     notices |-> <<>>,          \* updateMessage(loadingId, ...) progress texts
     errors |-> <<>>,           \* the error callApi threw at each attempt
     timer |-> "none",          \* the abort timer: none, armed, cleared
     overdue |-> FALSE,         \* 60 s went by after the timer was cleared
     headers |-> {},            \* the request headers of the last fetch
     url |-> "",                \* the URL of the last fetch
     resp |-> NoResp,
     received |-> 0,            \* how much of resp.body has arrived
     path |-> "none",           \* the decoding path callApi took
     rest |-> <<>>,             \* the part of the body not yet read
     buffer |-> <<>>,
     fullResponse |-> <<>>,
     frags |-> <<>>,            \* updateMessageWithTyping values of the stream
     pieces |-> <<>>,           \* the fragments appended to fullResponse
     seen |-> <<>>,             \* each payload processed, with its effect
     finishes |-> <<>>,         \* finishTyping values
     doneSeen |-> FALSE,        \* a [DONE] payload has been processed
     afterDone |-> <<>>,        \* fragments appended after [DONE] was processed
     released |-> FALSE,        \* reader.releaseLock() ran
     streamResult |-> <<>>,     \* handleStreamResponse's return value
     words |-> <<>>,
     idx |-> 0,
     currentText |-> <<>>,
     typingText |-> <<>>,       \* simulateTypingEffect's text
     typingReturn |-> <<>>,     \* what callApi returns after the playback
     typed |-> <<>>,            \* updateMessageWithTyping values of the playback
     delays |-> 0,              \* playback timers that have fired
     outcome |-> NoOutcome]     \* how the chain ended: ok(text) or err(error)

\* The state one segment of code works on: its frame and the message list.
World(e) == [f |-> ex[e], messages |-> messages, dom |-> dom]

\* ------------------------------------------------------------ message slots

\* parseMarkdown is outside the model: an element's content is the text
\* written to it, plus whether the typing cursor span follows it.
Element(id, text, isUser) ==
    [id |-> id, isUser |-> isUser, content |-> text, cursor |-> FALSE,
     classes |-> {}]

\* addMessage's id: a fresh one (Date.now() + random suffix).
NewId(w) == Len(w.dom) + 1

AddMessage(w, text, isUser) ==
    [w EXCEPT
       !.messages = Append(@, [id |-> NewId(w), text |-> text, isUser |-> isUser]),
       !.dom = Append(@, Element(NewId(w), text, isUser))]

SetText(msgs, id, text) ==
    [i \in 1..Len(msgs) |->
        IF msgs[i].id = id THEN [msgs[i] EXCEPT !.text = text] ELSE msgs[i]]

UpdateMessage(w, id, newText) ==
    [w EXCEPT
       !.dom = [i \in 1..Len(@) |->
                  IF @[i].id = id
                  THEN [@[i] EXCEPT !.content = newText, !.cursor = FALSE]
                  ELSE @[i]],
       !.messages = SetText(@, id, newText)]

\* An update that writes to the newest message element, whatever the id.
UpdateMessageWithTypingNewest(w, id, newText) ==
    [w EXCEPT
       !.dom = [i \in 1..Len(@) |->
                  IF i = Len(@)
                  THEN [@[i] EXCEPT !.content = newText, !.cursor = TRUE,
                                    !.classes = @ \cup {"typing"}]
                  ELSE @[i]],
       !.messages = SetText(@, id, newText)]

UpdateMessageWithTyping(w, id, newText) ==
    [w EXCEPT
       !.dom = [i \in 1..Len(@) |->
                  IF @[i].id = id
                  THEN [@[i] EXCEPT !.content = newText, !.cursor = TRUE,
                                    !.classes = @ \cup {"typing"}]
                  ELSE @[i]],
       !.messages = SetText(@, id, newText)]

FinishTyping(w, id, finalText) ==
    [w EXCEPT
       !.dom = [i \in 1..Len(@) |->
                  IF @[i].id = id
                  THEN [@[i] EXCEPT !.content = finalText, !.cursor = FALSE,
                                    !.classes = @ \ {"typing", "streaming"}]
                  ELSE @[i]],
       !.messages = SetText(@, id, finalText)]

AddStreamingEffect(w, id) ==
    [w EXCEPT
       !.dom = [i \in 1..Len(@) |->
                  IF @[i].id = id
                  THEN [@[i] EXCEPT !.classes = @ \cup {"streaming"}]
                  ELSE @[i]]]

RemoveStreamingEffect(w, id) ==
    [w EXCEPT
       !.dom = [i \in 1..Len(@) |->
                  IF @[i].id = id
                  THEN [@[i] EXCEPT !.classes = @ \ {"streaming"}]
                  ELSE @[i]]]

\* --------------------------------------------------------------- sendMessage

Ended(w, outcome) == [w EXCEPT !.f.pc = "done", !.f.outcome = outcome]

\* sendMessage after callApi returned `response` (visual.ts:215-220).
SendMessageReturn(w, response) ==
    LET shown ==
          IF response /= <<>> /\ response /= <<EmptySentinel>>
          THEN UpdateMessage(w, w.f.responseId, response)
          ELSE IF response = <<EmptySentinel>>
               THEN UpdateMessage(w, w.f.responseId, <<NoValidReply>>)
               ELSE w
    IN Ended(shown, [kind |-> "ok", text |-> response, error |-> NoError])

\* The text sendMessage's catch block shows for an error (visual.ts:223-229):
\* "❌ 网络连接失败\n\n" + message + "\n\n💡 建议：检查网络连接和API配置", etc.
ErrorText(error) ==
    IF Includes(error.message, NetFail)
    THEN <<"[x] ", NetFail, "\n", "\n">> \o error.message
            \o <<"\n", "\n", "advice_check_network_and_config">>
    ELSE IF Includes(error.message, ReqTimeout)
    THEN <<"[clock] ", ReqTimeout, "\n", "\n">> \o error.message
            \o <<"\n", "\n", "advice_check_network_or_retry_later">>
    ELSE <<"[x] ", "error_occurred", ": ">> \o error.message
            \o <<"\n", "\n", "advice_check_config_and_network">>

\* A catch block that appends the error as a new message and leaves the
\* placeholder in place.
SendMessageCatchAppends(w, error) ==
    Ended(AddMessage(w, ErrorText(error), FALSE),
          [kind |-> "err", text |-> <<>>, error |-> error])

\* sendMessage's catch block (visual.ts:221-230).
SendMessageCatch(w, error) ==
    Ended(UpdateMessage(w, w.f.responseId, ErrorText(error)),
          [kind |-> "err", text |-> <<>>, error |-> error])

\* ---------------------------------------------------------- callApiWithRetry

Min(a, b) == IF a < b THEN a ELSE b

\* A backoff computed from the number of the next attempt.
BackoffDelayNextAttempt(attempt) == Min(1000 * 2 ^ attempt, 5000)

\* Math.min(1000 * Math.pow(2, attempt - 1), 5000) (visual.ts:294): the
\* delay slept after attempt `attempt` failed.
BackoffDelay(attempt) == Min(1000 * 2 ^ (attempt - 1), 5000)

\* Math.ceil(ms / 1000) (visual.ts:292)
CeilSeconds(ms) == (ms + 999) \div 1000

\* A retry test that looks for the browser's message only.
IsRetryableFetchOnly(error) == Includes(error.message, FailedToFetch)

\* The test that makes callApiWithRetry retry (visual.ts:289).
IsRetryable(error) ==
    Includes(error.message, FailedToFetch) \/ Includes(error.message, NetFail)

\* updateMessage(loadingId, ...) when a loadingId was given; the notice is
\* logged too.
Notice(w, notice) ==
    IF w.f.responseId /= 0
    THEN [UpdateMessage(w, w.f.responseId, notice.text)
            EXCEPT !.f.notices = Append(@, notice)]
    ELSE w

\* "连接失败，N秒后重试..." (visual.ts:292)
DelayNotice(attempt) ==
    [kind |-> "delay", attempt |-> attempt, of |-> 0,
     ms |-> BackoffDelay(attempt),
     text |-> <<"conn_failed_retry_in_seconds", ToString(CeilSeconds(BackoffDelay(attempt)))>>]

\* "正在重试连接... (attempt/maxRetries)" (visual.ts:282)
RetryNotice(attempt, maxRetries) ==
    [kind |-> "retry", attempt |-> attempt, of |-> maxRetries, ms |-> 0,
     text |-> <<"retrying_connection", ToString(attempt), "/", ToString(maxRetries)>>]

\* A catch block that announces a retry before it looks at the budget.
CallApiWithRetryCatchEagerNotice(w, error) ==
    LET w1 == [w EXCEPT !.f.lastError = error, !.f.errors = Append(@, error)]
    IN IF IsRetryable(error)
       THEN IF w1.f.attempt < w1.f.maxRetries
            THEN [Notice(w1, DelayNotice(w1.f.attempt))
                    EXCEPT !.f.sleeps = Append(@, BackoffDelay(w1.f.attempt)),
                           !.f.pc = "backoff"]
            ELSE Ended(Notice(w1, DelayNotice(w1.f.attempt)),
                       [kind |-> "err", text |-> <<>>, error |-> error])
       ELSE Ended(w1, [kind |-> "err", text |-> <<>>, error |-> error])

\* callApiWithRetry's catch block (visual.ts:285-302): sleep and go round
\* again, or throw to the caller.
CallApiWithRetryCatch(w, error) ==
    LET w1 == [w EXCEPT !.f.lastError = error, !.f.errors = Append(@, error)]
    IN IF IsRetryable(error) /\ w1.f.attempt < w1.f.maxRetries
       THEN [Notice(w1, DelayNotice(w1.f.attempt))
               EXCEPT !.f.sleeps = Append(@, BackoffDelay(w1.f.attempt)),
                      !.f.pc = "backoff"]
       ELSE Ended(w1, [kind |-> "err", text |-> <<>>, error |-> error])

\* A return that throws the error of an earlier attempt when there was one.
CallApiWithRetryReturnStale(w, response) ==
    IF w.f.lastError = NoError
    THEN Ended(w, [kind |-> "ok", text |-> response, error |-> NoError])
    ELSE Ended(w, [kind |-> "err", text |-> <<>>, error |-> w.f.lastError])

\* return await this.callApi(message) (visual.ts:284)
CallApiWithRetryReturn(w, response) ==
    Ended(w, [kind |-> "ok", text |-> response, error |-> NoError])

\* ------------------------------------------------------------------ callApi

\* callApi returns `value` to whoever awaits it.
CallApiReturn(w, value) ==
    IF w.f.caller = "send" THEN SendMessageReturn(w, value)
    ELSE CallApiWithRetryReturn(w, value)

\* callApi throws `error` to whoever awaits it.
CallApiThrow(w, error) ==
    IF w.f.caller = "send" THEN SendMessageCatch(w, error)
    ELSE CallApiWithRetryCatch(w, error)

\* new URL(apiUrl) succeeds (visual.ts:242)
UrlValid(url) == url \in {"https://api.example/chat", "http://api.example/chat"}
UrlProtocol(url) == IF url = "https://api.example/chat" THEN "https:" ELSE "http:"

\* performNetworkDiagnostics (visual.ts:237-272).  The lines that do not
\* depend on the settings (environment, sandbox) are one atom each; the
\* time stamp line is left out.
PerformNetworkDiagnostics ==
    (IF UrlValid(apiSettings.apiUrl)
     THEN <<"url_ok", apiSettings.apiUrl>>
            \o (IF UrlProtocol(apiSettings.apiUrl) /= "https:"
                THEN <<"protocol_warning", UrlProtocol(apiSettings.apiUrl)>>
                ELSE <<>>)
     ELSE <<"url_bad", apiSettings.apiUrl>>)
    \o <<"env_powerbi", "sandbox">>
    \o (IF apiSettings.authType = "None"
        THEN <<"auth_none">>
        ELSE <<"auth", apiSettings.authType,
               IF apiSettings.apiKey /= "" THEN "configured" ELSE "key_missing">>)

\* The error callApi's catch block throws for `error` (visual.ts:432-444).
Reclassify(error) ==
    IF error.name = "AbortError"
    THEN Err("Error", <<ReqTimeout, "check_network_or_api_speed">>)
    ELSE IF Includes(error.message, FailedToFetch)
    THEN Err("Error", <<NetFail, "\n", "\n", "diagnostics", ":">>
                         \o PerformNetworkDiagnostics
                         \o <<"\n", "\n", "please_check", "CORS", "support">>)
    ELSE IF Includes(error.message, "CORS")
    THEN Err("Error", <<CorsBlocked, "CORS", "policy">>)
    ELSE IF Includes(error.message, "TypeError")
    THEN Err("Error", <<RequestConfigError>>)
    ELSE error

\* An error thrown inside callApi's try block.
CallApiCatch(w, error) == CallApiThrow(w, Reclassify(error))

\* ------------------------------------------------------ simulateTypingEffect

\* simulateTypingEffect up to its first await (visual.ts:632-642): the
\* first word is shown.  `returns` is what callApi returns afterwards.
SimulateTypingEffect(w, text, returns) ==
    LET words == Split(text, " ")
        w1 == [w EXCEPT !.f.words = words, !.f.idx = 1,
                        !.f.currentText = words[1],
                        !.f.typed = <<words[1]>>, !.f.delays = 0,
                        !.f.typingText = text, !.f.typingReturn = returns,
                        !.f.pc = "typing"]
    IN UpdateMessageWithTyping(w1, w1.f.messageId, words[1])

\* The playback callApi runs before it returns a complete text
\* (visual.ts:380-386, 396-402, 411-417, 423-429).
PlayThenReturn(w, text, returns) ==
    IF w.f.messageId /= 0
    THEN SimulateTypingEffect(
             UpdateMessage(RemoveStreamingEffect(w, w.f.messageId), w.f.messageId, <<>>),
             text, returns)
    ELSE CallApiReturn(w, returns)

\* A playback step that adds the next word without the space before it.
TypingStepNoSeparator(w) ==
    IF w.f.idx < Len(w.f.words)
    THEN LET cur == w.f.currentText \o w.f.words[w.f.idx + 1]
         IN UpdateMessageWithTyping(
                [w EXCEPT !.f.idx = @ + 1, !.f.currentText = cur,
                          !.f.typed = Append(@, cur), !.f.delays = @ + 1],
                w.f.messageId, cur)
    ELSE CallApiReturn(
             [FinishTyping(w, w.f.messageId, w.f.typingText)
                EXCEPT !.f.finishes = Append(@, w.f.typingText),
                       !.f.delays = @ + 1],
             w.f.typingReturn)

\* A playback whose finishTyping call runs after callApi's caller has
\* written the final text.
TypingStepFinishAfterReturn(w) ==
    IF w.f.idx < Len(w.f.words)
    THEN LET cur == w.f.currentText \o <<" ">> \o w.f.words[w.f.idx + 1]
         IN UpdateMessageWithTyping(
                [w EXCEPT !.f.idx = @ + 1, !.f.currentText = cur,
                          !.f.typed = Append(@, cur), !.f.delays = @ + 1],
                w.f.messageId, cur)
    ELSE FinishTyping(
             CallApiReturn([w EXCEPT !.f.finishes = Append(@, w.f.typingText),
                                     !.f.delays = @ + 1],
                           w.f.typingReturn),
             w.f.messageId, w.f.typingText)

\* One timer of the playback fired (visual.ts:636-646): the next word, or
\* the end of the loop, finishTyping and callApi's return.
TypingStep(w) ==
    IF w.f.idx < Len(w.f.words)
    THEN LET cur == w.f.currentText \o <<" ">> \o w.f.words[w.f.idx + 1]
         IN UpdateMessageWithTyping(
                [w EXCEPT !.f.idx = @ + 1, !.f.currentText = cur,
                          !.f.typed = Append(@, cur), !.f.delays = @ + 1],
                w.f.messageId, cur)
    ELSE CallApiReturn(
             [FinishTyping(w, w.f.messageId, w.f.typingText)
                EXCEPT !.f.finishes = Append(@, w.f.typingText),
                       !.f.delays = @ + 1],
             w.f.typingReturn)

\* ------------------------------------------------------ handleStreamResponse

\* A fragment callback that reports the new fragment, not the text so far.
AppendFragmentDelta(w, fragment) ==
    LET full == w.f.fullResponse \o fragment
        w1 == [w EXCEPT !.f.fullResponse = full,
                        !.f.pieces = Append(@, fragment),
                        !.f.afterDone = IF w.f.doneSeen THEN Append(@, fragment) ELSE @]
    IN IF w1.f.messageId /= 0
       THEN [UpdateMessageWithTyping(w1, w1.f.messageId, fragment)
               EXCEPT !.f.frags = Append(@, fragment)]
       ELSE w1

\* fullResponse += fragment, then the fragment callback (visual.ts:164-173,
\* 178-181).
AppendFragment(w, fragment) ==
    LET full == w.f.fullResponse \o fragment
        w1 == [w EXCEPT !.f.fullResponse = full,
                        !.f.pieces = Append(@, fragment),
                        !.f.afterDone = IF w.f.doneSeen THEN Append(@, fragment) ELSE @]
    IN IF w1.f.messageId /= 0
       THEN [UpdateMessageWithTyping(w1, w1.f.messageId, full)
               EXCEPT !.f.frags = Append(@, full)]
       ELSE w1

\* The text a parsed payload carries (visual.ts:158-161).
ExtractContent(parsed) ==
    Or(parsed.cdc, Or(parsed.content, Or(parsed.text, parsed.message)))

\* A payload handler whose catch block drops what does not parse.
ProcessPayloadJsonOnly(w, data) ==
    IF JsonParses(data) /\ JsonParse(data).kind /= "null"
          /\ ExtractContent(JsonParse(data)) /= <<>>
    THEN AppendFragment(w, ExtractContent(JsonParse(data)))
    ELSE w

\* The body of the try/catch for one payload (visual.ts:156-183).  Reading
\* a property of null throws inside the try, so null lands in the catch
\* block like a payload that does not parse.
ProcessPayload(w, data) ==
    IF JsonParses(data) /\ JsonParse(data).kind /= "null"
    THEN IF ExtractContent(JsonParse(data)) /= <<>>
         THEN AppendFragment(w, ExtractContent(JsonParse(data)))
         ELSE w
    ELSE IF Trim(data) /= <<>> THEN AppendFragment(w, data) ELSE w

\* The log entry for one payload: what it was and what processing it did.
Observed(w, data, after) ==
    [after EXCEPT !.f.seen =
        Append(@, [data |-> data,
                   before |-> w.f.fullResponse,
                   after |-> after.f.fullResponse,
                   reported |-> /\ Len(after.f.frags) = Len(w.f.frags) + 1
                                /\ after.f.frags[Len(after.f.frags)] = after.f.fullResponse])]

\* The for loop over the complete lines of one chunk (visual.ts:144-185);
\* [DONE] leaves the loop.
RECURSIVE ProcessLines(_, _)
ProcessLines(w, lines) ==
    IF lines = <<>> THEN w
    ELSE LET line == Head(lines) IN
         IF Trim(line) = <<>> THEN ProcessLines(w, Tail(lines))
         ELSE IF StartsWith(line, "data: ")
         THEN IF Tail(line) = <<"[DONE]">>
              THEN [w EXCEPT !.f.doneSeen = TRUE]
              ELSE ProcessLines(Observed(w, Tail(line), ProcessPayload(w, Tail(line))),
                                Tail(lines))
         ELSE ProcessLines(w, Tail(lines))

\* reader.read() gave a chunk (visual.ts:131-185).
ReadChunk(w, chunk) ==
    LET lines == Split(w.f.buffer \o chunk, "\n")
        w1 == [w EXCEPT !.f.buffer = lines[Len(lines)]]
    IN ProcessLines(w1, SubSeq(lines, 1, Len(lines) - 1))

\* reader.read() gave done (visual.ts:133-135, 187-196), and callApi
\* returns what handleStreamResponse returned (visual.ts:370).
StreamEnd(w) ==
    LET w1 == [w EXCEPT !.f.released = TRUE]
        w2 == IF w1.f.messageId /= 0 /\ w1.f.fullResponse /= <<>>
              THEN [FinishTyping(w1, w1.f.messageId, w1.f.fullResponse)
                      EXCEPT !.f.finishes = Append(@, w1.f.fullResponse)]
              ELSE w1
        result == Or(w2.f.fullResponse, <<EmptySentinel>>)
    IN CallApiReturn([w2 EXCEPT !.f.streamResult = result], result)

\* handleStreamResponse up to its first read (visual.ts:112-131).  The
\* Response callApi builds from the body text always has a body.
HandleStreamResponse(w) ==
    LET w1 == IF w.f.messageId /= 0
              THEN UpdateMessage(RemoveStreamingEffect(w, w.f.messageId),
                                 w.f.messageId, <<>>)
              ELSE w
    IN [w1 EXCEPT !.f.rest = w.f.resp.body, !.f.buffer = <<>>,
                  !.f.fullResponse = <<>>, !.f.pc = "read"]

\* ------------------------------------------------- callApi: classification

\* A classifier that tests for JSON and plain text before event streams.
DecodingPathJsonFirst(contentType) ==
    IF Includes(contentType, "application/json")
       \/ Includes(contentType, "text/plain") THEN "json"
    ELSE IF Includes(contentType, "text/event-stream") THEN "stream"
    ELSE "text"

\* The decoding path for a content-type header (visual.ts:363, 371, 419).
\* A missing header is <<>> and takes the last branch.
DecodingPath(contentType) ==
    IF Includes(contentType, "text/event-stream") THEN "stream"
    ELSE IF Includes(contentType, "application/json")
            \/ Includes(contentType, "text/plain") THEN "json"
    ELSE "text"

\* `${data.statusCode || data.status}` (visual.ts:405)
StatusShown(data) ==
    IF data.statusCode /= "absent" THEN data.statusCode
    ELSE IF data.status /= "absent" THEN data.status ELSE "undefined"

\* A JSON branch that looks at reply before message.
ClassifyJsonReplyFirst(w, doc) ==
    LET data == JsonValue(doc) IN
    IF data.kind = "null"
    THEN CallApiCatch(w, Err("TypeError", <<"cannot_read_properties_of_null">>))
    ELSE IF data.statusCode = "200" \/ data.status = "200" \/ data.success = "true"
    THEN LET responseContent ==
               Or(data.response, Or(data.reply, Or(data.message,
                  Or(data.content, Or(data.text, <<ReplyButEmpty>>)))))
         IN PlayThenReturn(w, responseContent, responseContent)
    ELSE IF data.error /= <<>> \/ data.statusCode /= "200"
    THEN CallApiCatch(w, Err("Error",
             Or(data.error, Or(data.message,
                <<"api_returned_error_status", ": ", StatusShown(data)>>))))
    ELSE LET responseContent ==
               Or(data.response, Or(data.reply, Or(data.message,
                  Or(data.content, Or(data.text, <<doc>>)))))
         IN PlayThenReturn(w, responseContent, responseContent)

\* The branch for a body that parsed as JSON (visual.ts:392-418).
\* Reading statusCode of null throws a TypeError inside the try block.
ClassifyJson(w, doc) ==
    LET data == JsonValue(doc) IN
    IF data.kind = "null"
    THEN CallApiCatch(w, Err("TypeError", <<"cannot_read_properties_of_null">>))
    ELSE IF data.statusCode = "200" \/ data.status = "200" \/ data.success = "true"
    THEN LET responseContent ==
               Or(data.response, Or(data.message, Or(data.reply,
                  Or(data.content, Or(data.text, <<ReplyButEmpty>>)))))
         IN PlayThenReturn(w, responseContent, responseContent)
    ELSE IF data.error /= <<>> \/ data.statusCode /= "200"
    THEN CallApiCatch(w, Err("Error",
             Or(data.error, Or(data.message,
                <<"api_returned_error_status", ": ", StatusShown(data)>>))))
    ELSE LET responseContent ==
               Or(data.response, Or(data.message, Or(data.reply,
                  Or(data.content, Or(data.text, <<doc>>)))))
         IN PlayThenReturn(w, responseContent, responseContent)

\* callApi from the arrival of the body text (visual.ts:359-430).
ClassifyResponse(w, responseText) ==
    LET path == DecodingPath(w.f.resp.contentType) IN
    IF path = "stream"
    THEN HandleStreamResponse([w EXCEPT !.f.path = "stream"])
    ELSE IF path = "json"
    THEN IF JsonParses(responseText)
         THEN ClassifyJson([w EXCEPT !.f.path = "json"], Trim(responseText)[1])
         ELSE PlayThenReturn([w EXCEPT !.f.path = "json_fallback_text"],
                             responseText, responseText)
    ELSE PlayThenReturn([w EXCEPT !.f.path = "text"], responseText,
                        Or(responseText, <<ResponseButEmpty>>))

\* ------------------------------------------------------- callApi: request

\* Request headers built without the test for an empty credential.
BuildHeadersAnyKey ==
    {<<"Content-Type", <<"application/json">>>>,
     <<"Accept", <<"text/event-stream", ", ", "application/json">>>>}
    \cup (IF apiSettings.authType = "Bearer"
          THEN {<<"Authorization", <<"Bearer ", apiSettings.apiKey>>>>}
          ELSE IF apiSettings.authType = "ApiKey"
          THEN {<<"X-API-Key", <<apiSettings.apiKey>>>>}
          ELSE {})

\* The request headers (visual.ts:313-325).
BuildHeaders ==
    {<<"Content-Type", <<"application/json">>>>,
     <<"Accept", <<"text/event-stream", ", ", "application/json">>>>}
    \cup (IF apiSettings.authType /= "None" /\ apiSettings.apiKey /= ""
          THEN IF apiSettings.authType = "Bearer"
               THEN {<<"Authorization", <<"Bearer ", apiSettings.apiKey>>>>}
               ELSE IF apiSettings.authType = "ApiKey"
               THEN {<<"X-API-Key", <<apiSettings.apiKey>>>>}
               ELSE {}
          ELSE {})

\* A callApi without the test for a missing URL.
CallApiUnchecked(w, messageId) ==
    [w EXCEPT !.f.messageId = messageId,
              !.f.headers = BuildHeaders, !.f.url = apiSettings.apiUrl,
              !.f.timer = "armed", !.f.calls = @ + 1, !.f.pc = "fetch"]

\* callApi up to the await of fetch (visual.ts:308-346).  The missing-URL
\* error is thrown before the try block, so the catch block never sees it.
CallApi(w, messageId) ==
    LET w1 == [w EXCEPT !.f.messageId = messageId] IN
    IF apiSettings.apiUrl = ""
    THEN CallApiThrow(w1, Err("Error", <<ConfigMissing>>))
    ELSE [w1 EXCEPT !.f.headers = BuildHeaders, !.f.url = apiSettings.apiUrl,
                    !.f.timer = "armed", !.f.calls = @ + 1, !.f.pc = "fetch"]

\* ------------------------------------------------------------------ inputs

Urls == {"", "https://api.example/chat", "http://api.example/chat"}
Keys == {"", "abc"}
AuthTypes == {"None", "Bearer", "ApiKey"}
Configs == [apiUrl : Urls, apiKey : Keys, authType : AuthTypes]

\* What the user may have typed into the input field.
Inputs == {<<>>, <<" ">>, <<" ", "hi", " ">>}

Resp(ok, status, statusText, contentType, body) ==
    [ok |-> ok, status |-> status, statusText |-> statusText,
     contentType |-> contentType, body |-> body]

\* Rejections of fetch(): the browser's network failure, and a failure
\* with another message.
FetchErrors ==
    {Err("TypeError", <<FailedToFetch>>),
     Err("TypeError", <<"NetworkError when attempting to fetch resource.">>)}

\* Bodies of non-2xx responses: the server chooses the text.
HttpErrorBodies ==
    {<<>>, <<"oops">>, <<"upstream", ": ", FailedToFetch>>, <<NetFail>>}

ErrorResponses ==
    {Resp(FALSE, "500", "Internal Server Error", <<"text/plain">>, b) :
        b \in HttpErrorBodies}

\* The lines an event-stream body is made of.
StreamLines ==
    {<<"data: ", "{content:Hel}">>,
     <<"data: ", "{content:lo}">>,
     <<"data: ", "{choices:[{delta:{content:a}}],content:b}">>,
     <<"data: ", "{}">>,
     <<"data: ", "null">>,
     <<"data: ", "[DONE]">>,
     <<"data: ", "plain", " ", "text">>,
     <<"data: ", " ">>,
     <<"data: ", EmptySentinel>>,
     <<": ", "comment">>,
     <<>>}

\* lines.join("\n")
RECURSIVE JoinLines(_)
JoinLines(lines) ==
    IF lines = <<>> THEN <<>>
    ELSE IF Len(lines) = 1 THEN lines[1]
    ELSE lines[1] \o <<"\n">> \o JoinLines(Tail(lines))

\* Event-stream bodies of up to MaxLines lines, the last one with or
\* without its newline.
StreamBodies ==
    UNION {{JoinLines(ls), JoinLines(ls) \o <<"\n">>} :
             ls \in UNION {[1..n -> StreamLines] : n \in 0..MaxLines}}

StreamResponses ==
    {Resp(TRUE, "200", "OK", <<"text/event-stream">>, b) : b \in StreamBodies}

ContentTypes ==
    {<<"text/event-stream">>,
     <<"text/event-stream", ", ", "application/json">>,
     <<"application/json">>,
     <<"application/json", "; ", "charset=utf-8">>,
     <<"text/plain">>,
     <<"text/html">>,
     <<>>}

ReplyBodies ==
    {<<>>,
     <<"hello", " ", "world">>,
     <<"{statusCode:200,response:ok}">>,
     <<"{error:bad input}">>,
     <<"{response:hi}">>,
     <<"{statusCode:200}">>,
     <<"{statusCode:200,error:bad input}">>,
     <<"{}">>,
     <<"{success:true,response:,message:m,reply:r}">>,
     <<"{status:200,reply:r,content:,text:t}">>,
     <<"{statusCode:200,content:,text:t}">>,
     <<"a", " ", "b", " ", "c">>,
     <<"a", " ", " ", "b">>,
     <<"line1", "\n", "line2">>,
     <<"data: ", "{content:Hel}", "\n", "data: ", "plain", "\n">>}

ClassifyResponses ==
    {Resp(TRUE, "200", "OK", ct, b) : ct \in ContentTypes, b \in ReplyBodies}

\* The replies of the full system: one of each kind.
SendResponses ==
    {Resp(TRUE, "200", "OK", <<"text/event-stream">>,
          <<"data: ", "{content:Hel}", "\n", "data: ", "{content:lo}", "\n">>),
     Resp(TRUE, "200", "OK", <<"application/json">>, <<"{statusCode:200,response:ok}">>),
     Resp(TRUE, "200", "OK", <<"text/html">>, <<"hello", " ", "world">>),
     Resp(FALSE, "500", "Internal Server Error", <<"text/plain">>, <<"oops">>)}

\* ----------------------------------------------------------------- actions

Apply(e, w) ==
    /\ ex' = [ex EXCEPT ![e] = w.f]
    /\ messages' = w.messages
    /\ dom' = w.dom

\* The user edits the input field.
TypeInput(text) ==
    /\ input' = text
    /\ UNCHANGED <<apiSettings, messages, dom, ex>>

\* The host calls update() (visual.ts:659-668).  A property the host left
\* out is "" here.
\* An update that goes back to the initial settings when the options carry
\* no apiSettings object.
UpdateResetsWhenMissing(hasSettings, objects) ==
    /\ apiSettings' =
         IF hasSettings
         THEN [apiUrl |-> objects.apiUrl,
               apiKey |-> objects.apiKey,
               authType |-> IF objects.authType /= "" THEN objects.authType
                            ELSE "Bearer"]
         ELSE [apiUrl |-> "", apiKey |-> "", authType |-> "Bearer"]
    /\ UNCHANGED <<messages, dom, input, ex>>

\* An update that takes a missing authType for no authentication.
UpdateDefaultNone(hasSettings, objects) ==
    /\ apiSettings' =
         IF hasSettings
         THEN [apiUrl |-> objects.apiUrl,
               apiKey |-> objects.apiKey,
               authType |-> IF objects.authType /= "" THEN objects.authType
                            ELSE "None"]
         ELSE apiSettings
    /\ UNCHANGED <<messages, dom, input, ex>>

Update(hasSettings, objects) ==
    /\ apiSettings' =
         IF hasSettings
         THEN [apiUrl |-> objects.apiUrl,
               apiKey |-> objects.apiKey,
               authType |-> IF objects.authType /= "" THEN objects.authType
                            ELSE "Bearer"]
         ELSE apiSettings
    /\ UNCHANGED <<messages, dom, input, ex>>

\* A send that takes the input as it is, without trimming it.
SendMessageUntrimmed(e) ==
    /\ ex[e].pc = "idle"
    /\ \A d \in Exchanges : d < e => ex[d].pc /= "idle"
    /\ LET messageText == input IN
       IF messageText = <<>>
       THEN UNCHANGED vars
       ELSE LET w0 == [World(e) EXCEPT !.f.caller = "send",
                                       !.f.config = apiSettings,
                                       !.f.message = messageText]
                w1 == AddMessage(w0, messageText, TRUE)
                responseId == NewId(w1)
                w2 == AddStreamingEffect(AddMessage(w1, <<Connecting>>, FALSE),
                                         responseId)
            IN /\ Apply(e, CallApi([w2 EXCEPT !.f.responseId = responseId],
                                   responseId))
               /\ input' = <<>>
               /\ UNCHANGED apiSettings

\* A click on the send button or Enter in the input field: sendMessage up
\* to the await of fetch (visual.ts:96-102, 199-213).
SendMessage(e) ==
    /\ ex[e].pc = "idle"
    /\ \A d \in Exchanges : d < e => ex[d].pc /= "idle"
    /\ LET messageText == Trim(input) IN
       IF messageText = <<>>
       THEN UNCHANGED vars
       ELSE LET w0 == [World(e) EXCEPT !.f.caller = "send",
                                       !.f.config = apiSettings,
                                       !.f.message = messageText]
                w1 == AddMessage(w0, messageText, TRUE)
                responseId == NewId(w1)
                w2 == AddStreamingEffect(AddMessage(w1, <<Connecting>>, FALSE),
                                         responseId)
            IN /\ Apply(e, CallApi([w2 EXCEPT !.f.responseId = responseId],
                                   responseId))
               /\ input' = <<>>
               /\ UNCHANGED apiSettings

\* A call of callApiWithRetry(message, maxRetries, loadingId) up to the
\* await of fetch (visual.ts:276-284), with a loading slot or without.
CallApiWithRetry(e, maxRetries, withLoading) ==
    /\ ex[e].pc = "idle"
    /\ LET w0 == [World(e) EXCEPT !.f.caller = "retry",
                                  !.f.config = apiSettings,
                                  !.f.message = <<"hi">>,
                                  !.f.maxRetries = maxRetries,
                                  !.f.attempt = 1]
           w1 == IF withLoading
                 THEN [AddMessage(w0, <<"thinking">>, FALSE)
                         EXCEPT !.f.responseId = NewId(w0)]
                 ELSE w0
       IN Apply(e, CallApi(w1, 0))
    /\ UNCHANGED <<apiSettings, input>>

\* The backoff timer fired: attempt++ and the next round of the loop
\* (visual.ts:279-284, 295-296).
BackoffDone(e) ==
    /\ ex[e].pc = "backoff"
    /\ LET w1 == [World(e) EXCEPT !.f.attempt = @ + 1]
           w2 == Notice(w1, RetryNotice(w1.f.attempt, w1.f.maxRetries))
       IN Apply(e, CallApi(w2, 0))
    /\ UNCHANGED <<apiSettings, input>>

\* fetch resolved with a response (visual.ts:348-359): the timer is
\* cleared and the body text awaited.
FetchResolve(e, response) ==
    /\ ex[e].pc = "fetch"
    /\ ex' = [ex EXCEPT ![e].timer = "cleared", ![e].resp = response,
                        ![e].received = 0,
                        ![e].fetches = Append(@, [kind |-> "response",
                                                  ok |-> response.ok,
                                                  error |-> NoError]),
                        ![e].pc = IF response.ok THEN "bodytext" ELSE "errtext"]
    /\ UNCHANGED <<apiSettings, messages, dom, input>>

\* fetch rejected (visual.ts:432-444).
FetchReject(e, error) ==
    /\ ex[e].pc = "fetch"
    /\ Apply(e, CallApiCatch(
                  [World(e) EXCEPT !.f.fetches =
                      Append(@, [kind |-> "reject", ok |-> FALSE, error |-> error])],
                  error))
    /\ UNCHANGED <<apiSettings, input>>

\* The 60 s timer fired while fetch was pending: controller.abort() makes
\* fetch reject with an AbortError (visual.ts:335, 433-434).
FetchTimeout(e) ==
    /\ ex[e].pc = "fetch"
    /\ ex[e].timer = "armed"
    /\ LET abort == Err("AbortError", <<"The user aborted a request.">>)
       IN Apply(e, CallApiCatch(
                     [World(e) EXCEPT !.f.timer = "fired",
                                      !.f.fetches = Append(@, [kind |-> "abort",
                                                               ok |-> FALSE,
                                                               error |-> abort])],
                     abort))
    /\ UNCHANGED <<apiSettings, input>>

\* response.text() of a non-2xx response settled (visual.ts:350-353): the
\* body, or "未知错误" when reading it failed.
ErrorTextSettled(e, readable) ==
    /\ ex[e].pc = "errtext"
    /\ LET errorText == IF readable THEN ex[e].resp.body ELSE <<UnknownError>>
       IN Apply(e, CallApiCatch(
                  [World(e) EXCEPT !.f.received =
                      IF readable THEN Len(ex[e].resp.body) ELSE @],
                  Err("Error", <<ApiCallFailed, " (", ex[e].resp.status, "): ",
                                 ex[e].resp.statusText, ". ">> \o errorText)))
    /\ UNCHANGED <<apiSettings, input>>

\* A part of the response body arrived, not the last one: response.text()
\* stays pending (visual.ts:351, 359).
BodyArrives(e, n) ==
    /\ ex[e].pc \in {"bodytext", "errtext"}
    /\ n \in (ex[e].received + 1)..(Len(ex[e].resp.body) - 1)
    /\ ex' = [ex EXCEPT ![e].received = n]
    /\ UNCHANGED <<apiSettings, messages, dom, input>>

\* 60 s have gone by since callApi set its timer, the body still being
\* awaited: the timer was cleared when the headers arrived, so nothing
\* runs (visual.ts:335, 348, 351, 359).
DeadlinePassed(e) ==
    /\ ex[e].pc \in {"bodytext", "errtext"}
    /\ ex[e].received < Len(ex[e].resp.body)
    /\ ex[e].timer = "cleared"
    /\ ~ex[e].overdue
    /\ ex' = [ex EXCEPT ![e].overdue = TRUE]
    /\ UNCHANGED <<apiSettings, messages, dom, input>>

\* response.text() of a 2xx response resolved with the whole body
\* (visual.ts:359-430).
BodyTextResolved(e) ==
    /\ ex[e].pc = "bodytext"
    /\ Apply(e, ClassifyResponse(
                  [World(e) EXCEPT !.f.received = Len(ex[e].resp.body)],
                  ex[e].resp.body))
    /\ UNCHANGED <<apiSettings, input>>

\* reader.read() resolved with the next chunk: any non-empty prefix of
\* what is left of the body.
StreamRead(e, n) ==
    /\ ex[e].pc = "read"
    /\ n \in 1..Len(ex[e].rest)
    /\ Apply(e, ReadChunk([World(e) EXCEPT !.f.rest = SubSeq(@, n + 1, Len(@))],
                          SubSeq(ex[e].rest, 1, n)))
    /\ UNCHANGED <<apiSettings, input>>

\* reader.read() resolved with done.
StreamDone(e) ==
    /\ ex[e].pc = "read"
    /\ ex[e].rest = <<>>
    /\ Apply(e, StreamEnd(World(e)))
    /\ UNCHANGED <<apiSettings, input>>

\* A timer of simulateTypingEffect fired.
TypingTick(e) ==
    /\ ex[e].pc = "typing"
    /\ Apply(e, TypingStep(World(e)))
    /\ UNCHANGED <<apiSettings, input>>

\* ---------------------------------------------------------- specifications

InitSettings == [apiUrl |-> "", apiKey |-> "", authType |-> "Bearer"]

\* The visual after construction (visual.ts:60-70).
Init ==
    /\ apiSettings = InitSettings
    /\ messages = <<>>
    /\ dom = <<>>
    /\ input = <<>>
    /\ ex = [e \in Exchanges |-> IdleFrame]

\* The settings objects the host sends in the full system.
UpdateObjects ==
    {[apiUrl |-> "", apiKey |-> "", authType |-> ""],
     [apiUrl |-> "https://api.example/chat", apiKey |-> "abc", authType |-> "Bearer"],
     [apiUrl |-> "https://api.example/chat", apiKey |-> "", authType |-> "None"]}

\* The whole visual: the host updates the settings, the user types and
\* sends, the network answers.
Next ==
    \/ \E text \in Inputs : TypeInput(text)
    \/ \E objects \in UpdateObjects : Update(TRUE, objects)
    \/ Update(FALSE, InitSettings)
    \/ \E e \in Exchanges :
          \/ SendMessage(e)
          \/ \E r \in SendResponses : FetchResolve(e, r)
          \/ \E err \in FetchErrors : FetchReject(e, err)
          \/ FetchTimeout(e)
          \/ \E n \in 1..Len(ex[e].resp.body) : BodyArrives(e, n)
          \/ DeadlinePassed(e)
          \/ \E readable \in BOOLEAN : ErrorTextSettled(e, readable)
          \/ BodyTextResolved(e)
          \/ \E n \in 1..Len(ex[e].rest) : StreamRead(e, n)
          \/ StreamDone(e)
          \/ TypingTick(e)

Spec == Init /\ [][Next]_vars

\* callApiWithRetry and sendMessage against a failing transport: one call
\* chain, any settings (fixed while it runs), any number of attempts.
InitRetry ==
    /\ apiSettings \in Configs
    /\ messages = <<>>
    /\ dom = <<>>
    /\ input = <<"hi">>
    /\ ex = [e \in Exchanges |-> IdleFrame]

RetryResponses ==
    ErrorResponses
    \cup {Resp(TRUE, "200", "OK", <<"application/json">>, <<"{statusCode:200,response:ok}">>)}

NextRetry ==
    \/ \E n \in 1..MaxRetriesBound, withLoading \in BOOLEAN :
          CallApiWithRetry(1, n, withLoading)
    \/ SendMessage(1)
    \/ BackoffDone(1)
    \/ \E r \in RetryResponses : FetchResolve(1, r)
    \/ \E err \in FetchErrors : FetchReject(1, err)
    \/ FetchTimeout(1)
    \/ \E readable \in BOOLEAN : ErrorTextSettled(1, readable)
    \/ BodyTextResolved(1)
    \/ TypingTick(1)

SpecRetry == InitRetry /\ [][NextRetry]_vars

\* One send against a configured endpoint.
InitConfigured ==
    /\ apiSettings = [apiUrl |-> "https://api.example/chat", apiKey |-> "abc",
                      authType |-> "Bearer"]
    /\ messages = <<>>
    /\ dom = <<>>
    /\ input = <<"hi">>
    /\ ex = [e \in Exchanges |-> IdleFrame]

\* One send answered by an event stream: any body, cut into any chunks.
NextStream ==
    \/ SendMessage(1)
    \/ \E r \in StreamResponses : FetchResolve(1, r)
    \/ BodyTextResolved(1)
    \/ \E n \in 1..Len(ex[1].rest) : StreamRead(1, n)
    \/ StreamDone(1)

SpecStream == InitConfigured /\ [][NextStream]_vars

\* One send answered by a 2xx response of any content type.
NextClassify ==
    \/ SendMessage(1)
    \/ \E r \in ClassifyResponses : FetchResolve(1, r)
    \/ \E n \in 1..Len(ex[1].resp.body) : BodyArrives(1, n)
    \/ DeadlinePassed(1)
    \/ BodyTextResolved(1)
    \/ \E n \in 1..Len(ex[1].rest) : StreamRead(1, n)
    \/ StreamDone(1)
    \/ TypingTick(1)

SpecClassify == InitConfigured /\ [][NextClassify]_vars

\* The replies of overlapping sends: a stream, a JSON object, a plain text.
OverlapResponses == {r \in SendResponses : r.ok}

\* Sends that overlap: the user types and sends again while earlier
\* exchanges are still running.
NextOverlap ==
    \/ TypeInput(<<"hi">>)
    \/ \E e \in Exchanges :
          \/ SendMessage(e)
          \/ \E r \in OverlapResponses : FetchResolve(e, r)
          \/ FetchReject(e, Err("TypeError", <<FailedToFetch>>))
          \/ BodyTextResolved(e)
          \/ \E n \in 1..Len(ex[e].rest) : StreamRead(e, n)
          \/ StreamDone(e)
          \/ TypingTick(e)

SpecOverlap == InitConfigured /\ [][NextOverlap]_vars

\* enumerateObjectInstances (visual.ts:670-681): the properties read back.
\* this.apiSettings and its fields are never null, so ?. and ?? pass
\* them through.
EnumerateObjectInstances ==
    [apiUrl |-> apiSettings.apiUrl, apiKey |-> apiSettings.apiKey,
     authType |-> apiSettings.authType]

\* The apiSettings objects the host may send: each property given or left
\* out (""), authType any string of the host's.
ConfigObjects ==
    [apiUrl : Urls, apiKey : Keys, authType : AuthTypes \cup {"", "Basic"}]

\* The settings side: the host updates the settings at any time, before
\* and while a send runs.
NextConfig ==
    \/ \E objects \in ConfigObjects : Update(TRUE, objects)
    \/ Update(FALSE, InitSettings)
    \/ \E text \in Inputs : TypeInput(text)
    \/ SendMessage(1)
    \/ \E err \in FetchErrors : FetchReject(1, err)
    \/ FetchTimeout(1)

SpecConfig == Init /\ [][NextConfig]_vars

\* The settings the host changes to while a chain runs: another endpoint,
\* another auth mode, no credential.
SnapshotObjects ==
    {[apiUrl |-> "http://api.example/chat", apiKey |-> "", authType |-> "ApiKey"],
     [apiUrl |-> "https://api.example/chat", apiKey |-> "abc", authType |-> "None"],
     [apiUrl |-> "", apiKey |-> "abc", authType |-> ""]}

\* A chain of two attempts, or a send, while the host updates the settings:
\* before the chain, while a request is in flight, during the backoff sleep.
NextSnapshot ==
    \/ \E objects \in SnapshotObjects : Update(TRUE, objects)
    \/ CallApiWithRetry(1, 2, TRUE)
    \/ SendMessage(1)
    \/ BackoffDone(1)
    \/ FetchReject(1, Err("TypeError", <<FailedToFetch>>))
    \/ FetchTimeout(1)

SpecSnapshot == InitConfigured /\ [][NextSnapshot]_vars

\* One send against a configured endpoint with every outcome: a reply of
\* any content type, an HTTP error, a network failure, a timeout.
NextExchange ==
    \/ SendMessage(1)
    \/ \E r \in ClassifyResponses \cup ErrorResponses : FetchResolve(1, r)
    \/ \E err \in FetchErrors : FetchReject(1, err)
    \/ FetchTimeout(1)
    \/ \E readable \in BOOLEAN : ErrorTextSettled(1, readable)
    \/ BodyTextResolved(1)
    \/ \E n \in 1..Len(ex[1].rest) : StreamRead(1, n)
    \/ StreamDone(1)
    \/ TypingTick(1)

SpecExchange == InitConfigured /\ [][NextExchange]_vars

\* ----------------------------------------------------------- testConnection
\* The connection test of the earlier revision of the visual
\* (src/unnamed/part_000).

\* "❌ 请先在设置中配置API URL" (part_000:253)
ConfigureInSettings == "configure_api_url_in_settings"
\* "🔍 正在测试API连接..." (part_000:257)
TestingConnection == "testing_api_connection"
\* "✅ 连接测试成功！" (part_000:306)
TestSucceeded == "connection_test_succeeded"
\* "⚠️ API返回错误:" (part_000:310)
ApiReturnedError == "api_returned_error"
\* "无法读取错误信息" (part_000:308)
CannotReadError == "cannot_read_error_text"
\* "⏰ 连接超时" (part_000:317)
ConnectionTimedOut == "connection_timed_out"
\* "❌ 连接测试失败" (part_000:327)
TestFailed == "connection_test_failed"

\* removeMessage (part_000:482-488): the element and the record go.
RemoveMessage(w, id) ==
    [w EXCEPT !.dom = SelectSeq(@, LAMBDA m : m.id /= id),
              !.messages = SelectSeq(@, LAMBDA m : m.id /= id)]

\* The headers of the probe (part_000:266-278).
TestHeaders ==
    {<<"Content-Type", <<"application/json">>>>,
     <<"Accept", <<"application/json">>>>}
    \cup (IF apiSettings.authType /= "None" /\ apiSettings.apiKey /= ""
          THEN IF apiSettings.authType = "Bearer"
               THEN {<<"Authorization", <<"Bearer ", apiSettings.apiKey>>>>}
               ELSE IF apiSettings.authType = "ApiKey"
               THEN {<<"X-API-Key", <<apiSettings.apiKey>>>>}
               ELSE {}
          ELSE {})

\* testConnection from the headers of the probe to the await of its fetch
\* (part_000:266-298): the 15 s timer is armed and the POST is sent.
TestProbe(w) ==
    [w EXCEPT !.f.headers = TestHeaders, !.f.url = apiSettings.apiUrl,
              !.f.timer = "armed", !.f.calls = @ + 1, !.f.pc = "probe"]

\* The message testConnection's catch block adds (part_000:316-328).
TestErrorText(error) ==
    IF error.name = "AbortError" THEN <<ConnectionTimedOut>>
    ELSE IF Includes(error.message, FailedToFetch)
    THEN <<NetFail, "\n", "\n", "diagnostics", ":">> \o PerformNetworkDiagnostics
    ELSE IF Includes(error.message, "CORS") THEN <<CorsBlocked>>
    ELSE IF Includes(error.message, "TypeError") THEN <<RequestConfigError>>
    ELSE <<TestFailed, "\n", "\n">> \o error.message

\* A catch block that leaves the placeholder where it is.
TestConnectionCatchKeepsPlaceholder(w, error) ==
    Ended(AddMessage(w, TestErrorText(error), FALSE),
          [kind |-> "err", text |-> TestErrorText(error), error |-> error])

\* testConnection's catch block (part_000:313-329).
TestConnectionCatch(w, error) ==
    Ended(AddMessage(RemoveMessage(w, w.f.responseId), TestErrorText(error), FALSE),
          [kind |-> "err", text |-> TestErrorText(error), error |-> error])

\* A click on the test button: testConnection up to its first await
\* (part_000:104, 251-298): the preflight when an auth mode is set, else
\* the probe.
TestConnection(e) ==
    /\ ex[e].pc = "idle"
    /\ LET w0 == [World(e) EXCEPT !.f.caller = "test", !.f.config = apiSettings] IN
       IF apiSettings.apiUrl = ""
       THEN Apply(e, Ended(AddMessage(w0, <<ConfigureInSettings>>, FALSE),
                           [kind |-> "err", text |-> <<ConfigureInSettings>>,
                            error |-> NoError]))
       ELSE LET w1 == [AddMessage(w0, <<TestingConnection>>, FALSE)
                         EXCEPT !.f.responseId = NewId(w0)]
            IN Apply(e, IF apiSettings.authType /= "None"
                        THEN [w1 EXCEPT !.f.calls = @ + 1, !.f.pc = "preflight"]
                        ELSE TestProbe(w1))
    /\ UNCHANGED <<apiSettings, input>>

\* The OPTIONS request of testPreflightRequest settled (part_000:158-179):
\* with a response, with a rejection, or aborted by its 5 s timer.  The
\* catch block swallows a failure, and testConnection goes on to the probe.
PreflightSettled(e, kind) ==
    /\ ex[e].pc = "preflight"
    /\ kind \in {"response", "reject", "abort"}
    /\ Apply(e, TestProbe([World(e) EXCEPT !.f.fetches =
                              Append(@, [kind |-> kind, ok |-> kind = "response",
                                         error |-> NoError])]))
    /\ UNCHANGED <<apiSettings, input>>

\* The probe's fetch resolved (part_000:300-311): the timer is cleared and
\* the placeholder removed; a 2xx response gives the success message, any
\* other response waits for its body text.
ProbeResolve(e, response) ==
    /\ ex[e].pc = "probe"
    /\ LET w1 == RemoveMessage(
                    [World(e) EXCEPT !.f.timer = "cleared", !.f.resp = response,
                                     !.f.fetches = Append(@, [kind |-> "response",
                                                              ok |-> response.ok,
                                                              error |-> NoError])],
                    ex[e].responseId)
           success == <<TestSucceeded, response.status, apiSettings.apiUrl,
                        IF apiSettings.authType = "None" THEN "auth_none"
                        ELSE apiSettings.authType>>
       IN Apply(e, IF response.ok
                   THEN Ended(AddMessage(w1, success, FALSE),
                              [kind |-> "ok", text |-> success, error |-> NoError])
                   ELSE [w1 EXCEPT !.f.pc = "testerrtext"])
    /\ UNCHANGED <<apiSettings, input>>

\* response.text() of the probe's non-2xx response settled (part_000:308-310).
ProbeErrorTextSettled(e, readable) ==
    /\ ex[e].pc = "testerrtext"
    /\ LET errorText == IF readable THEN ex[e].resp.body ELSE <<CannotReadError>>
           text == <<ApiReturnedError, ex[e].resp.status, ex[e].resp.statusText>>
                      \o errorText
       IN Apply(e, Ended(AddMessage(World(e), text, FALSE),
                         [kind |-> "err", text |-> text, error |-> NoError]))
    /\ UNCHANGED <<apiSettings, input>>

\* The probe's fetch rejected (part_000:313-329).
ProbeReject(e, error) ==
    /\ ex[e].pc = "probe"
    /\ Apply(e, TestConnectionCatch(
                  [World(e) EXCEPT !.f.fetches =
                      Append(@, [kind |-> "reject", ok |-> FALSE, error |-> error])],
                  error))
    /\ UNCHANGED <<apiSettings, input>>

\* The 15 s timer fired while the probe was pending (part_000:286-287,
\* 316-317).
ProbeTimeout(e) ==
    /\ ex[e].pc = "probe"
    /\ ex[e].timer = "armed"
    /\ LET abort == Err("AbortError", <<"The user aborted a request.">>)
       IN Apply(e, TestConnectionCatch(
                     [World(e) EXCEPT !.f.timer = "fired",
                                      !.f.fetches = Append(@, [kind |-> "abort",
                                                               ok |-> FALSE,
                                                               error |-> abort])],
                     abort))
    /\ UNCHANGED <<apiSettings, input>>

\* The answers to the probe: a 2xx response and the non-2xx ones.
TestResponses ==
    ErrorResponses
    \cup {Resp(TRUE, "200", "OK", <<"application/json">>, <<"{}">>)}

\* One connection test, under any settings, with every outcome of the
\* preflight and of the probe.
NextTest ==
    \/ TestConnection(1)
    \/ \E kind \in {"response", "reject", "abort"} : PreflightSettled(1, kind)
    \/ \E r \in TestResponses : ProbeResolve(1, r)
    \/ \E readable \in BOOLEAN : ProbeErrorTextSettled(1, readable)
    \/ \E err \in FetchErrors : ProbeReject(1, err)
    \/ ProbeTimeout(1)

SpecTest == InitRetry /\ [][NextTest]_vars

\* ------------------------------------------------------------------ claims

\* maxRetries' default (visual.ts:276)
DefaultMaxRetries == 3

\* callApi's NetworkError: the error its catch block builds for a failed
\* fetch.
IsNetworkError(error) == Includes(error.message, NetFail)

\* Every attempt so far reached the transport, and the transport failed
\* each time with the browser's network failure.
TransportAlwaysFailed(f) ==
    /\ Len(f.fetches) = Len(f.errors)
    /\ \A i \in 1..Len(f.fetches) :
          /\ f.fetches[i].kind = "reject"
          /\ f.fetches[i].error = Err("TypeError", <<FailedToFetch>>)

\* C1: callApiWithRetry with maxRetries = n against a transport that fails
\* every call with a network error invokes the transport exactly n times
\* and then throws the NetworkError of the n-th attempt.
C1_ExhaustsAttempts ==
    \A e \in Exchanges :
       LET f == ex[e] IN
       (f.caller = "retry" /\ f.pc = "done" /\ f.calls >= 1 /\ TransportAlwaysFailed(f))
       => /\ f.calls = f.maxRetries
          /\ Len(f.errors) = f.maxRetries
          /\ f.outcome.kind = "err"
          /\ IsNetworkError(f.outcome.error)
          /\ f.outcome.error = f.errors[f.maxRetries]
          /\ f.outcome.error = f.lastError

C1_Witness ==
    \E e \in Exchanges :
       /\ ex[e].caller = "retry" /\ ex[e].pc = "done"
       /\ TransportAlwaysFailed(ex[e])
       /\ ex[e].maxRetries = 4 /\ ex[e].calls = 4

\* C2: in callApiWithRetry no attempt follows one that ended with a non-2xx
\* response or with the deadline abort: that attempt's fetch is the last.
C2_NoRetryAfterHttpOrTimeout ==
    \A e \in Exchanges :
       LET f == ex[e] IN
       f.caller = "retry"
       => \A i \in 1..Len(f.fetches) :
             (\/ f.fetches[i].kind = "abort"
              \/ f.fetches[i].kind = "response" /\ ~f.fetches[i].ok)
             => /\ f.calls = i
                /\ f.pc /= "backoff"

\* C3: the sleep before attempt k is 1000 ms for k = 2, 2000 for 3, 4000
\* for 4 and 5000 for every later attempt, and attempt 1 has none: the
\* sleeps so far are those before attempts 2..attempt (and the one before
\* the next attempt while it runs).
ExpectedDelay(k) ==
    CASE k = 2 -> 1000
      [] k = 3 -> 2000
      [] k = 4 -> 4000
      [] OTHER -> 5000

C3_BackoffDelays ==
    \A e \in Exchanges :
       LET f == ex[e] IN
       f.caller = "retry"
       => /\ \A k \in 2..(Len(f.sleeps) + 1) : f.sleeps[k - 1] = ExpectedDelay(k)
          /\ Len(f.sleeps) = IF f.pc = "backoff" THEN f.attempt ELSE f.attempt - 1

C3_Witness ==
    \E e \in Exchanges :
       /\ ex[e].caller = "retry" /\ ex[e].attempt = 5 /\ ex[e].pc = "fetch"
       /\ ex[e].sleeps = <<1000, 2000, 4000, 5000>>

\* C4: with an empty endpoint URL a call fails with the missing-URL error
\* at once, through sendMessage -> callApi and through callApiWithRetry
\* alike: no fetch, no second attempt, no backoff sleep, no progress notice.
C4_EmptyUrlShortCircuits ==
    apiSettings.apiUrl = ""
    => \A e \in Exchanges :
          LET f == ex[e] IN
          /\ f.pc \in {"idle", "done"}
          /\ f.calls = 0 /\ f.fetches = <<>>
          /\ f.sleeps = <<>> /\ f.notices = <<>>
          /\ f.pc = "done"
             => /\ f.outcome.kind = "err"
                /\ f.outcome.error = Err("Error", <<ConfigMissing>>)
                /\ f.caller = "retry" => f.attempt = 1
                /\ f.caller = "send"
                   => dom[f.responseId].content = ErrorText(Err("Error", <<ConfigMissing>>))

C4_Witness ==
    \E e \in Exchanges :
       /\ apiSettings.apiUrl = ""
       /\ ex[e].caller = "retry" /\ ex[e].maxRetries = 3 /\ ex[e].pc = "done"
       /\ ex[e].calls = 0

\* C5: a send whose transport fails with a network error is tried again,
\* up to the default budget of 3 attempts, before the failure is shown.
C5_SendRetries ==
    \A e \in Exchanges :
       LET f == ex[e] IN
       (f.caller = "send" /\ f.pc = "done" /\ f.outcome.kind = "err"
          /\ IsNetworkError(f.outcome.error))
       => f.calls = DefaultMaxRetries

\* C6: every fragment callback of handleStreamResponse gets the previous
\* callback's value with the new, non-empty fragment appended, and the
\* value returned at the end is the last callback's value; fragments
\* 'Hel', 'lo' give 'Hel', 'Hello' and the result 'Hello'.
HelloBody ==
    <<"data: ", "{content:Hel}", "\n", "data: ", "{content:lo}", "\n">>

C6_CumulativeFragments ==
    \A e \in Exchanges :
       LET f == ex[e] IN
       f.path = "stream"
       => /\ Len(f.frags) = Len(f.pieces)
          /\ \A i \in 1..Len(f.frags) :
                /\ f.pieces[i] /= <<>>
                /\ f.frags[i] = (IF i = 1 THEN <<>> ELSE f.frags[i - 1]) \o f.pieces[i]
          /\ (f.pc = "done" /\ f.frags /= <<>>)
             => f.streamResult = f.frags[Len(f.frags)]
          /\ (f.pc = "done" /\ f.resp.body = HelloBody)
             => /\ f.frags = << <<"Hel">>, <<"Hel", "lo">> >>
                /\ f.streamResult = <<"Hel", "lo">>

C6_Witness ==
    \E e \in Exchanges :
       /\ ex[e].pc = "done" /\ ex[e].resp.body = HelloBody
       /\ ex[e].frags = << <<"Hel">>, <<"Hel", "lo">> >>

\* C7: once a [DONE] payload has been processed, no later data line adds
\* to the full text or reaches the fragment callback.
C7_NothingAfterDone ==
    \A e \in Exchanges : ex[e].afterDone = <<>>

\* C8: a payload that is not JSON and not blank is appended to the full
\* text as it is and reported through the fragment callback.
C8_RawPayloadVerbatim ==
    \A e \in Exchanges :
       \A i \in 1..Len(ex[e].seen) :
          LET p == ex[e].seen[i] IN
          (~JsonParses(p.data) /\ Trim(p.data) /= <<>>)
          => /\ p.after = p.before \o p.data
             /\ p.reported

C8_Witness ==
    \E e \in Exchanges :
       \E i \in 1..Len(ex[e].seen) :
          /\ ex[e].seen[i].data = <<"plain", " ", "text">>
          /\ ex[e].seen[i].before = <<"Hel">>
          /\ ex[e].seen[i].after = <<"Hel", "plain", " ", "text">>
          /\ ex[e].seen[i].reported

\* C9: handleStreamResponse returns the empty-response sentinel, never the
\* empty string, exactly when no fragment was extracted; and then it made
\* no fragment callback and no finishTyping call.
C9_SentinelIffNothingExtracted ==
    \A e \in Exchanges :
       LET f == ex[e] IN
       (f.path = "stream" /\ f.pc = "done")
       => /\ f.streamResult /= <<>>
          /\ f.streamResult = <<EmptySentinel>> <=> f.pieces = <<>>
          /\ f.pieces = <<>> => (f.frags = <<>> /\ f.finishes = <<>>)

\* C10: for a 2xx response the content-type header alone picks the path:
\* the stream decoder when it contains text/event-stream, else a JSON parse
\* of the whole body (the raw text played when it does not parse) when it
\* contains application/json or text/plain, else the raw text.
ExpectedPath(f) ==
    IF "text/event-stream" \in Range(f.resp.contentType) THEN "stream"
    ELSE IF {"application/json", "text/plain"} \cap Range(f.resp.contentType) /= {}
    THEN IF JsonParses(f.resp.body) THEN "json" ELSE "raw"
    ELSE "raw"

C10_PathFromContentType ==
    \A e \in Exchanges :
       LET f == ex[e] IN
       (f.resp.ok /\ f.pc \in {"read", "typing", "done"})
       => CASE ExpectedPath(f) = "stream" ->
                 /\ f.path = "stream"
                 /\ f.typingText = <<>> /\ f.finishes \in {<<>>, <<f.fullResponse>>}
                 /\ f.pc = "done" <=> f.released
            [] ExpectedPath(f) = "json" ->
                 /\ f.path = "json"
                 /\ ~f.released /\ f.frags = <<>>
                 /\ f.resp.body = <<"{statusCode:200,response:ok}">>
                    => f.typingText = <<"ok">>
                 /\ f.resp.body = <<"{error:bad input}">>
                    => (f.pc = "done" /\ f.outcome.kind = "err")
            [] OTHER ->
                 /\ f.path \in {"json_fallback_text", "text"}
                 /\ ~f.released /\ f.frags = <<>>
                 /\ f.typingText = f.resp.body

C10_Witness ==
    \E e \in Exchanges :
       /\ ex[e].resp.ok
       /\ ex[e].resp.contentType = <<"text/event-stream", ", ", "application/json">>
       /\ ex[e].resp.body = <<"{statusCode:200,response:ok}">>
       /\ ex[e].pc = "done" /\ ex[e].released
       /\ ex[e].streamResult = <<EmptySentinel>>

\* The JSON object a finished exchange parsed its reply body into.
ParsedReply(f) == JsonValue(Trim(f.resp.body)[1])

\* The exchange took the JSON path with an object and has ended.
JsonReplyDone(f) ==
    f.path = "json" /\ f.pc = "done" /\ ParsedReply(f).kind = "object"

HasSuccessFlag(data) ==
    data.statusCode = "200" \/ data.status = "200" \/ data.success = "true"

NoStatusFields(data) ==
    data.statusCode = "absent" /\ data.status = "absent" /\ data.success = "absent"

\* The first present field among response, message, reply, content, text.
FirstReplyField(data) ==
    Or(data.response, Or(data.message, Or(data.reply, Or(data.content, data.text))))

\* C11: a parsed JSON reply object with no error field is a success even
\* when it has none of statusCode, status, success: callApi does not fail,
\* and an object with a response field gives that field's text as the reply.
C11_NoErrorFieldIsSuccess ==
    \A e \in Exchanges :
       LET f == ex[e] IN
       (JsonReplyDone(f) /\ ParsedReply(f).error = <<>> /\ NoStatusFields(ParsedReply(f)))
       => /\ f.outcome.kind = "ok"
          /\ ParsedReply(f).response /= <<>>
             => f.outcome.text = ParsedReply(f).response

\* C12: for a parsed JSON reply object that is a success (a success flag,
\* or no error field and no status) and has none of response, message,
\* reply, content, text, the reply is the serialization of the object.
C12_FallbackIsSerialization ==
    \A e \in Exchanges :
       LET f == ex[e] IN
       (/\ JsonReplyDone(f)
        /\ \/ HasSuccessFlag(ParsedReply(f))
           \/ ParsedReply(f).error = <<>> /\ NoStatusFields(ParsedReply(f))
        /\ FirstReplyField(ParsedReply(f)) = <<>>)
       => /\ f.outcome.kind = "ok"
          /\ f.outcome.text = Trim(f.resp.body)

\* C13: a parsed JSON reply object with an error field, whatever its
\* statusCode, status and success, makes callApi fail with the error
\* field as the message, and no reply text is played back.
C13_ErrorFieldAlwaysFails ==
    \A e \in Exchanges :
       LET f == ex[e] IN
       (JsonReplyDone(f) /\ ParsedReply(f).error /= <<>>)
       => /\ f.outcome.kind = "err"
          /\ f.outcome.error.message = ParsedReply(f).error
          /\ f.typed = <<>> /\ f.finishes = <<>>

\* The values the request of frame f carries for the header `name`.
HeaderValues(f, name) == {h[2] : h \in {g \in f.headers : g[1] = name}}

\* C14: the request callApi builds carries Authorization: Bearer <key> iff
\* authType is Bearer and the key is non-empty, X-API-Key: <key> iff
\* authType is ApiKey and the key is non-empty, neither header when
\* authType is None whatever the key, and never both.
C14_AuthHeaders ==
    \A e \in Exchanges :
       LET f == ex[e]
           bearer == HeaderValues(f, "Authorization")
           apikey == HeaderValues(f, "X-API-Key")
       IN f.calls >= 1
          => /\ bearer = IF apiSettings.authType = "Bearer" /\ apiSettings.apiKey /= ""
                         THEN {<<"Bearer ", apiSettings.apiKey>>} ELSE {}
             /\ apikey = IF apiSettings.authType = "ApiKey" /\ apiSettings.apiKey /= ""
                         THEN {<<apiSettings.apiKey>>} ELSE {}
             /\ apiSettings.authType = "None" => (bearer = {} /\ apikey = {})
             /\ bearer = {} \/ apikey = {}

C14_Witness ==
    \E e \in Exchanges :
       /\ apiSettings.authType = "Bearer" /\ apiSettings.apiKey = "abc"
       /\ ex[e].calls >= 1
       /\ <<"Authorization", <<"Bearer ", "abc">>>> \in ex[e].headers

\* The number of tokens of a text: its maximal runs of non-blank atoms.
RECURSIVE TokenCount(_, _)
TokenCount(s, inToken) ==
    IF s = <<>> THEN 0
    ELSE IF Head(s) \in WhiteSpace THEN TokenCount(Tail(s), FALSE)
    ELSE (IF inToken THEN 0 ELSE 1) + TokenCount(Tail(s), TRUE)

IsPrefix(p, s) == Len(p) <= Len(s) /\ SubSeq(s, 1, Len(p)) = p

\* A playback of simulateTypingEffect ran to its end in frame f.
PlaybackDone(f) == f.typed /= <<>> /\ f.pc = "done"

\* C15 as stated: a playback of a text of n white-space separated tokens
\* makes exactly n updates, each a prefix of the text and followed by a
\* delay, the last one the text, and then one finishing call with the text.
C15_OneUpdatePerToken ==
    \A e \in Exchanges :
       LET f == ex[e] IN
       PlaybackDone(f)
       => /\ Len(f.typed) = TokenCount(f.typingText, FALSE)
          /\ f.delays = Len(f.typed)
          /\ \A k \in 1..Len(f.typed) : IsPrefix(f.typed[k], f.typingText)
          /\ f.typed[Len(f.typed)] = f.typingText
          /\ f.finishes = <<f.typingText>>

\* The first k pieces of a text joined by single spaces.
RECURSIVE JoinPieces(_, _)
JoinPieces(pieces, k) ==
    IF k = 1 THEN pieces[1]
    ELSE JoinPieces(pieces, k - 1) \o <<" ">> \o pieces[k]

\* C15 amended: a playback of a text that the space character cuts into n
\* pieces (n >= 1, a piece may be empty or hold a newline) makes exactly n
\* updates, the k-th showing the first k pieces joined by single spaces,
\* each a prefix of the text and each followed by a delay; then comes one
\* finishing call with the text, which the last update showed too.
C15_OneUpdatePerPiece ==
    \A e \in Exchanges :
       LET f == ex[e]
           pieces == Split(f.typingText, " ")
       IN f.typed /= <<>>
          => /\ Len(f.typed) <= Len(pieces)
             /\ \A k \in 1..Len(f.typed) :
                   /\ f.typed[k] = JoinPieces(pieces, k)
                   /\ IsPrefix(f.typed[k], f.typingText)
             /\ f.pc = "typing"
                => (f.delays = Len(f.typed) - 1 /\ f.finishes = <<>>)
             /\ f.pc = "done"
                => /\ Len(f.typed) = Len(pieces)
                   /\ f.delays = Len(pieces)
                   /\ f.typed[Len(f.typed)] = f.typingText
                   /\ f.finishes = <<f.typingText>>
             /\ f.pc \in {"typing", "done"}

C15_Witness ==
    \E e \in Exchanges :
       /\ ex[e].pc = "done"
       /\ ex[e].typingText = <<"a", " ", "b", " ", "c">>
       /\ ex[e].typed = << <<"a">>, <<"a", " ", "b">>, <<"a", " ", "b", " ", "c">> >>
       /\ ex[e].finishes = << <<"a", " ", "b", " ", "c">> >>
       /\ ex[e].delays = 3

\* C16: in incremental mode the reply slot shows, after every fragment
\* update, the text so far followed by the cursor; once the stream has
\* ended with a non-empty text the slot shows that text with no cursor and
\* no typing marker, and stays so.
C16_CursorUntilFinalText ==
    \A e \in Exchanges :
       LET f == ex[e] IN
       (f.path = "stream" /\ f.frags /= <<>>)
       => /\ f.pc = "read"
             => /\ dom[f.responseId].content = f.frags[Len(f.frags)]
                /\ dom[f.responseId].content = f.fullResponse
                /\ dom[f.responseId].cursor
          /\ f.pc = "done"
             => /\ dom[f.responseId].content = f.fullResponse
                /\ ~dom[f.responseId].cursor
                /\ "typing" \notin dom[f.responseId].classes

\* The exchanges that have started and not yet delivered their outcome.
InFlight == {e \in Exchanges : ex[e].pc \notin {"idle", "done"}}

\* C17: at most one exchange is in flight: a send does not start an
\* exchange while an earlier one has not delivered its outcome.
C17_OneExchangeInFlight == Cardinality(InFlight) <= 1

\* C18: a step that changes a message slot (its element or its message
\* record) is a step of the exchange the slot was created for; no write
\* made for one exchange changes the slot of another.
C18_WritesOwnSlotOnly ==
    [][\A i \in 1..Len(dom) :
          (dom'[i] /= dom[i] \/ messages'[i] /= messages[i])
          => \E e \in Exchanges : ex'[e] /= ex[e] /\ ex[e].responseId = i]_vars

\* Two exchanges overlap and both have written: one is in its stream with
\* a fragment shown, the other in its playback with a second word shown.
C18_Witness ==
    \E d, e \in Exchanges :
       /\ d /= e
       /\ ex[d].pc = "read" /\ ex[d].frags /= <<>>
       /\ ex[e].pc = "typing" /\ Len(ex[e].typed) >= 2
       /\ dom[ex[d].responseId].content = <<"Hel">>
       /\ dom[ex[e].responseId].content = <<"hello", " ", "world">>

\* The complete lines of the part of the body that has arrived.
ArrivedLines(f) ==
    LET lines == Split(SubSeq(f.resp.body, 1, f.received), "\n")
    IN SubSeq(lines, 1, Len(lines) - 1)

\* A line of an event stream whose payload gives a fragment.
CarriesFragment(line) ==
    /\ StartsWith(line, "data: ")
    /\ Tail(line) /= <<"[DONE]">>
    /\ IF JsonParses(Tail(line)) /\ JsonParse(Tail(line)).kind /= "null"
       THEN ExtractContent(JsonParse(Tail(line))) /= <<>>
       ELSE Trim(Tail(line)) /= <<>>

\* An event-stream reply of which a line with a fragment has arrived
\* while later parts of the body have not.
FragmentArrivedEarly(f) ==
    /\ f.resp.ok
    /\ Includes(f.resp.contentType, "text/event-stream")
    /\ f.received < Len(f.resp.body)
    /\ \E i \in 1..Len(ArrivedLines(f)) : CarriesFragment(ArrivedLines(f)[i])

\* C19: a streamed reply is rendered as it arrives: once a line with a
\* fragment has arrived, the exchange is in the decoder's read loop or has
\* shown the fragment; it does not wait for the rest of the body.
C19_RendersAsItArrives ==
    \A e \in Exchanges :
       FragmentArrivedEarly(ex[e])
       => (ex[e].pc = "read" \/ ex[e].frags /= <<>>)

\* What the code does instead: no fragment is shown, and the decoder is
\* not started, before the whole body has arrived.
FragmentsOnlyAfterWholeBody ==
    \A e \in Exchanges :
       (ex[e].frags /= <<>> \/ ex[e].pc = "read")
       => ex[e].received = Len(ex[e].resp.body)

\* C20: when the deadline expires before the whole response (headers and
\* body) has arrived, the call is aborted and the exchange ends with the
\* timeout error, also when the headers had arrived and the body had not.
C20_DeadlineAborts ==
    \A e \in Exchanges :
       (ex[e].overdue \/ ex[e].timer = "fired")
       => /\ ex[e].pc = "done"
          /\ ex[e].outcome.kind = "err"
          /\ Includes(ex[e].outcome.error.message, ReqTimeout)

\* The half of C20 the code keeps: the deadline expiring while fetch is
\* pending ends the exchange with the timeout error.
TimeoutBeforeHeadersAborts ==
    \A e \in Exchanges :
       ex[e].timer = "fired"
       => /\ ex[e].pc = "done"
          /\ ex[e].outcome.kind = "err"
          /\ Includes(ex[e].outcome.error.message, ReqTimeout)

\* C21: the stored authType is always one of None, Bearer, ApiKey,
\* whatever updates the host has sent.
C21_AuthTypeInEnum == apiSettings.authType \in {"None", "Bearer", "ApiKey"}

\* What the claim expects to read back after update() with `objects`.
ExpectedReadback(objects) ==
    [apiUrl |-> objects.apiUrl,
     apiKey |-> objects.apiKey,
     authType |-> IF objects.authType = "" THEN "Bearer" ELSE objects.authType]

\* C22: before any update the readback is {"", "", "Bearer"}; an update
\* with an apiSettings object makes the readback that object, a missing
\* apiUrl or apiKey read back as "" and a missing authType as "Bearer";
\* nothing else changes the readback, so it shows the most recent update.
C22_ReadbackRoundTrip ==
    /\ EnumerateObjectInstances = [apiUrl |-> "", apiKey |-> "", authType |-> "Bearer"]
    /\ [][/\ \A objects \in ConfigObjects :
               Update(TRUE, objects)
               => EnumerateObjectInstances' = ExpectedReadback(objects)
          /\ (\A objects \in ConfigObjects : ~Update(TRUE, objects))
             => EnumerateObjectInstances' = EnumerateObjectInstances]_vars

\* The settings were updated again while a send was running: the readback
\* shows the newer object, the pending fetch the URL of the older one.
C22_Witness ==
    /\ EnumerateObjectInstances =
          [apiUrl |-> "http://api.example/chat", apiKey |-> "abc", authType |-> "ApiKey"]
    /\ ex[1].pc = "fetch"
    /\ ex[1].url = "https://api.example/chat"

\* C23: every rejection of fetch is classified by callApi as the network
\* error and retried by callApiWithRetry while attempts are left.
C23_NetworkFailuresRetried ==
    \A e \in Exchanges :
       LET f == ex[e] IN
       f.caller = "retry"
       => \A i \in 1..Min(Len(f.errors), Len(f.fetches)) :
             f.fetches[i].kind = "reject"
             => /\ IsNetworkError(f.errors[i])
                /\ (f.pc = "done" /\ i = Len(f.errors)) => i = f.maxRetries

\* The error callApi threw last, as its caller got it.
LastThrown(f) == IF f.caller = "retry" THEN f.lastError ELSE f.outcome.error

\* callApi has just thrown for the last response received.
ThrewForResponse(f) ==
    /\ f.fetches /= <<>>
    /\ f.fetches[Len(f.fetches)].kind = "response"
    /\ \/ f.pc = "backoff"
       \/ f.pc = "done" /\ f.outcome.kind = "err"

RECURSIVE IsSuffix(_, _)
IsSuffix(p, s) ==
    IF p = <<>> THEN TRUE
    ELSE /\ s /= <<>>
         /\ p[Len(p)] = s[Len(s)]
         /\ IsSuffix(SubSeq(p, 1, Len(p) - 1), SubSeq(s, 1, Len(s) - 1))

\* C24: an error raised after a response arrived leaves callApi as it was
\* raised: for a non-2xx response the HTTP error with status, statusText
\* and body, whatever the body says; never the network error, the CORS
\* error or the request-configuration error.
C24_ErrorKeepsKind ==
    \A e \in Exchanges :
       LET f == ex[e] IN
       ThrewForResponse(f)
       => /\ LastThrown(f).message[1] \notin {NetFail, CorsBlocked, RequestConfigError}
          /\ ~f.resp.ok
             => /\ StartsWith(LastThrown(f).message, ApiCallFailed)
                /\ Includes(LastThrown(f).message, f.resp.status)
                /\ Includes(LastThrown(f).message, f.resp.statusText)
                /\ \/ IsSuffix(f.resp.body, LastThrown(f).message)
                   \/ IsSuffix(<<UnknownError>>, LastThrown(f).message)

\* The category of the error text in a reply slot.
Category(content) ==
    IF Len(content) < 2 THEN "none"
    ELSE IF SubSeq(content, 1, 2) = <<"[x] ", NetFail>> THEN "network"
    ELSE IF SubSeq(content, 1, 2) = <<"[clock] ", ReqTimeout>> THEN "timeout"
    ELSE IF SubSeq(content, 1, 2) = <<"[x] ", "error_occurred">> THEN "generic"
    ELSE "none"

\* The kind of the failure a send ended with: what the transport did last
\* and what callApi made of it.
FailureKind(f) ==
    IF f.fetches = <<>> THEN "config"
    ELSE IF f.fetches[Len(f.fetches)].kind = "abort" THEN "timeout"
    ELSE IF f.fetches[Len(f.fetches)].kind = "reject" /\ IsNetworkError(f.outcome.error)
    THEN "network"
    ELSE "other"

\* C25: a send that failed shows in its reply slot the message of its
\* failure's category: the network message with the diagnostics for the
\* network error, the timeout message for the timeout, the generic message
\* for every other kind; nothing else is shown as network or timeout.
C25_CategoryMatchesKind ==
    \A e \in Exchanges :
       LET f == ex[e] IN
       (f.caller = "send" /\ f.pc = "done" /\ f.outcome.kind = "err")
       => /\ Category(dom[f.responseId].content) =
                CASE FailureKind(f) = "network" -> "network"
                  [] FailureKind(f) = "timeout" -> "timeout"
                  [] OTHER -> "generic"
          /\ FailureKind(f) = "network"
             => Includes(dom[f.responseId].content, "diagnostics")

\* The progress notices of a chain that has made `attempt` attempts and
\* slept `slept` times: before attempt k, k = 2.., the delay notice naming
\* the k-1st sleep, then the retry notice k/maxRetries.
ProgressOk(f) ==
    LET slept == Len(f.sleeps) IN
    /\ Len(f.notices) = slept + (f.attempt - 1)
    /\ \A k \in 2..(slept + 1) :
          LET d == f.notices[2 * (k - 1) - 1] IN
          /\ d.kind = "delay"
          /\ d.ms = f.sleeps[k - 1]
          /\ d.text = <<"conn_failed_retry_in_seconds", ToString(f.sleeps[k - 1] \div 1000)>>
          /\ f.sleeps[k - 1] % 1000 = 0
    /\ \A k \in 2..f.attempt :
          LET r == f.notices[2 * (k - 1)] IN
          /\ r.kind = "retry" /\ r.attempt = k /\ r.of = f.maxRetries
          /\ r.text = <<"retrying_connection", ToString(k), "/", ToString(f.maxRetries)>>

\* C26 as stated: every chain of n attempts that all failed with network
\* errors has issued exactly n - 1 delay notices, each naming the delay
\* slept and followed by the retry notice, and none after the last failure.
C26_ProgressBeforeEachRetry ==
    \A e \in Exchanges :
       LET f == ex[e] IN
       (f.caller = "retry" /\ f.pc = "done" /\ f.calls >= 1 /\ TransportAlwaysFailed(f))
       => /\ ProgressOk(f)
          /\ Len(f.notices) = 2 * (f.maxRetries - 1)

\* C26 amended: that holds of a chain that was given a loading slot, at
\* every point of the chain; a chain without a loading slot issues no
\* notice at all.
C26_ProgressWithLoadingSlot ==
    \A e \in Exchanges :
       LET f == ex[e] IN
       (f.caller = "retry" /\ f.calls >= 1)
       => IF f.responseId /= 0
          THEN /\ ProgressOk(f)
               /\ Len(f.sleeps) = IF f.pc = "backoff" THEN f.attempt ELSE f.attempt - 1
               /\ (f.pc = "done" /\ TransportAlwaysFailed(f))
                  => /\ Len(f.notices) = 2 * (f.maxRetries - 1)
                     /\ f.maxRetries > 1
                        => f.notices[Len(f.notices)].kind = "retry"
          ELSE f.notices = <<>>

C26_Witness ==
    \E e \in Exchanges :
       /\ ex[e].caller = "retry" /\ ex[e].responseId /= 0
       /\ ex[e].pc = "done" /\ TransportAlwaysFailed(ex[e])
       /\ ex[e].maxRetries = 3
       /\ Len(ex[e].notices) = 4
       /\ ex[e].notices[3].ms = 2000
       /\ dom[ex[e].responseId].content = <<"retrying_connection", "3", "/", "3">>

\* handleStreamResponse's fragment values and final text when the reader
\* delivers the whole body of f's response as one chunk.
WholeBodyDecoding(f) ==
    LET fresh == [f EXCEPT !.buffer = <<>>, !.fullResponse = <<>>,
                           !.frags = <<>>, !.pieces = <<>>, !.seen = <<>>,
                           !.doneSeen = FALSE, !.afterDone = <<>>]
        w == ReadChunk([f |-> fresh, messages |-> messages, dom |-> dom],
                       f.resp.body)
    IN [frags |-> w.f.frags,
        result |-> Or(w.f.fullResponse, <<EmptySentinel>>)]

\* C27: whatever chunks the reader cut the body into, handleStreamResponse
\* has made the fragment callbacks and returned the text that it makes and
\* returns for the same body in one chunk, a body with a [DONE] line
\* followed by data lines included.
C27_ChunkingIrrelevant ==
    \A e \in Exchanges :
       LET f == ex[e] IN
       (f.path = "stream" /\ f.released)
       => /\ f.frags = WholeBodyDecoding(f).frags
          /\ f.streamResult = WholeBodyDecoding(f).result

\* The fragment a data line gives.
LineFragment(line) ==
    IF JsonParses(Tail(line)) /\ JsonParse(Tail(line)).kind /= "null"
    THEN ExtractContent(JsonParse(Tail(line)))
    ELSE Tail(line)

\* C28: when the body has ended, a data line left in the carry-over buffer
\* without its newline has been decoded like a complete line: its fragment
\* is the last one appended to the full text.
C28_LeftoverLineDecoded ==
    \A e \in Exchanges :
       LET f == ex[e] IN
       (f.path = "stream" /\ f.released /\ ~f.doneSeen /\ CarriesFragment(f.buffer))
       => /\ f.pieces /= <<>>
          /\ f.pieces[Len(f.pieces)] = LineFragment(f.buffer)
          /\ IsSuffix(LineFragment(f.buffer), f.streamResult)

\* The first non-empty string of a list, <<>> when there is none.
RECURSIVE FirstNonEmpty(_)
FirstNonEmpty(values) ==
    IF values = <<>> THEN <<>>
    ELSE IF Head(values) /= <<>> THEN Head(values)
    ELSE FirstNonEmpty(Tail(values))

\* The fragment of a payload that parses as JSON: the first non-empty of
\* choices[0].delta.content, content, text, message; a document that is
\* not an object has none of them.
JsonFragment(data) ==
    LET v == JsonParse(data) IN
    IF v.kind = "object"
    THEN FirstNonEmpty(<<v.cdc, v.content, v.text, v.message>>)
    ELSE <<>>

\* The data lines of a body that are not the [DONE] line.
PayloadLines(body) ==
    LET lines == Split(body, "\n") IN
    {i \in 1..Len(lines) :
        StartsWith(lines[i], "data: ") /\ Tail(lines[i]) /= <<"[DONE]">>}

\* C29: a payload that parses as JSON adds its fragment, the first
\* non-empty of choices[0].delta.content, content, text, message, to the
\* full text and reports it; a payload with none of them leaves the full
\* text unchanged without a callback, and so do blank lines and lines
\* without the "data: " prefix: only the payloads of data lines are
\* decoded.
C29_JsonFragmentInOrder ==
    \A e \in Exchanges :
       LET f == ex[e] IN
       f.path = "stream"
       => /\ \A i \in 1..Len(f.seen) :
                LET p == f.seen[i] IN
                JsonParses(p.data)
                => /\ p.after = p.before \o JsonFragment(p.data)
                   /\ p.reported <=> JsonFragment(p.data) /= <<>>
          /\ Len(f.seen) <= Cardinality(PayloadLines(f.resp.body))
          /\ Len(f.pieces) =
                Cardinality({i \in 1..Len(f.seen) : f.seen[i].after /= f.seen[i].before})

\* The reply fields in the order of their priority.
ReplyFieldNames == <<"response", "message", "reply", "content", "text">>

\* The value of the first of the named fields that the object has with a
\* non-empty value, <<>> when there is none.
RECURSIVE FirstPresentNonEmpty(_, _)
FirstPresentNonEmpty(data, names) ==
    IF names = <<>> THEN <<>>
    ELSE IF Head(names) \in data.present /\ data[Head(names)] /= <<>>
    THEN data[Head(names)]
    ELSE FirstPresentNonEmpty(data, Tail(names))

\* C30: a JSON reply that callApi took as a success and that has a
\* non-empty field among response, message, reply, content, text gives the
\* value of the first such field as the reply text, played back and
\* returned; a field that is present but empty is passed over.
C30_FirstNonEmptyReplyField ==
    \A e \in Exchanges :
       LET f == ex[e]
           expected == FirstPresentNonEmpty(ParsedReply(f), ReplyFieldNames)
       IN (JsonReplyDone(f) /\ f.outcome.kind = "ok" /\ expected /= <<>>)
          => /\ f.outcome.text = expected
             /\ f.typingText = expected

C30_Witness ==
    \E e \in Exchanges :
       /\ JsonReplyDone(ex[e]) /\ ex[e].outcome.kind = "ok"
       /\ "response" \in ParsedReply(ex[e]).present
       /\ ParsedReply(ex[e]).response = <<>>
       /\ ParsedReply(ex[e]).reply = <<"r">>
       /\ ex[e].outcome.text = <<"m">>

\* The credential header a request made with `settings` carries.
AuthHeadersOf(settings) ==
    IF settings.apiKey = "" THEN {}
    ELSE IF settings.authType = "Bearer"
    THEN {<<"Authorization", <<"Bearer ", settings.apiKey>>>>}
    ELSE IF settings.authType = "ApiKey"
    THEN {<<"X-API-Key", <<settings.apiKey>>>>}
    ELSE {}

\* The diagnostics of an error message name the endpoint and the auth
\* mode of `settings`.
DiagnosticsOf(message, settings) ==
    /\ \E i \in 1..(Len(message) - 1) :
          message[i] \in {"url_ok", "url_bad"} /\ message[i + 1] = settings.apiUrl
    /\ IF settings.authType = "None"
       THEN Includes(message, "auth_none")
       ELSE \E i \in 1..(Len(message) - 2) :
              /\ message[i] = "auth"
              /\ message[i + 1] = settings.authType
              /\ message[i + 2] = IF settings.apiKey /= "" THEN "configured"
                                  ELSE "key_missing"

\* C31: every request of a chain goes to the endpoint and carries the
\* credential of the settings in force when the chain began, and the
\* diagnostics in its network error are those of these settings, whatever
\* updates arrived since.
C31_SettingsOfTheSend ==
    \A e \in Exchanges :
       LET f == ex[e] IN
       f.calls >= 1
       => /\ f.url = f.config.apiUrl
          /\ {h \in f.headers : h[1] \in {"Authorization", "X-API-Key"}}
                = AuthHeadersOf(f.config)
          /\ \A i \in 1..Len(f.errors) :
                IsNetworkError(f.errors[i]) => DiagnosticsOf(f.errors[i].message, f.config)
          /\ (f.pc = "done" /\ f.outcome.kind = "err" /\ IsNetworkError(f.outcome.error))
             => DiagnosticsOf(f.outcome.error.message, f.config)

\* C32: when a chain has ended, with a reply, an HTTP error, a network
\* failure or a timeout, the abort timer callApi armed before fetch is no
\* longer pending: it was cleared or it has fired.
C32_TimerNotPendingAtEnd ==
    \A e \in Exchanges :
       ex[e].pc = "done" => ex[e].timer /= "armed"

\* The text a send that has ended leaves in its reply slot: the reply, the
\* notice for the empty-response sentinel, or the categorized error text.
FinalShown(f) ==
    IF f.outcome.kind = "ok"
    THEN IF f.outcome.text = <<EmptySentinel>> THEN <<NoValidReply>>
         ELSE f.outcome.text
    ELSE ErrorText(f.outcome.error)

\* The steps of a send are in order in every state: the user message and
\* the reply slot exist once the exchange runs, fragment and token updates
\* and finish calls come only after a response was classified, and an
\* exchange that has ended shows its final text, without cursor.
StepsInOrder(f) ==
    /\ f.pc /= "idle"
       => /\ f.responseId \in 2..Len(dom)
          /\ f.responseId \in 2..Len(messages)
          /\ messages[f.responseId - 1].isUser
          /\ messages[f.responseId - 1].text = f.message
          /\ ~dom[f.responseId].isUser
          /\ f.messageId = f.responseId
    /\ (f.frags /= <<>> \/ f.typed /= <<>> \/ f.finishes /= <<>>)
       => /\ f.path /= "none"
          /\ f.fetches /= <<>>
          /\ f.fetches[Len(f.fetches)].kind = "response"
          /\ f.received = Len(f.resp.body)
    /\ f.pc = "done"
       => /\ dom[f.responseId].content = FinalShown(f)
          /\ messages[f.responseId].text = FinalShown(f)
          /\ ~dom[f.responseId].cursor

\* C33: within one exchange the steps neither overlap nor reorder: the
\* user message and the reply slot are there before the transport call,
\* no fragment or token update comes before the response is classified,
\* and the final reply or error text is the last write to the slot: the
\* slot of an exchange that has ended holds it and never changes again.
C33_StepsInOrder ==
    /\ [](\A e \in Exchanges : ex[e].caller = "send" => StepsInOrder(ex[e]))
    /\ [][\A e \in Exchanges :
            (ex[e].caller = "send" /\ ex[e].pc = "done")
            => /\ dom'[ex[e].responseId] = dom[ex[e].responseId]
               /\ messages'[ex[e].responseId] = messages[ex[e].responseId]
               /\ ex'[e] = ex[e]]_vars

\* A playback of an empty text body has finished with the empty text and
\* the slot shows the text sendMessage wrote after it.
C33_Witness ==
    \E e \in Exchanges :
       /\ ex[e].caller = "send" /\ ex[e].pc = "done" /\ ex[e].path = "text"
       /\ ex[e].finishes = << <<>> >>
       /\ ex[e].outcome.text = <<ResponseButEmpty>>
       /\ dom[ex[e].responseId].content = <<ResponseButEmpty>>

\* C34: the reply slot of a send that has ended, with a reply or with an
\* error, carries neither the 'streaming' marker set when the send began
\* nor the 'typing' marker.
C34_NoMarkerAtEnd ==
    \A e \in Exchanges :
       LET f == ex[e] IN
       (f.caller = "send" /\ f.pc = "done")
       => dom[f.responseId].classes \cap {"streaming", "typing"} = {}

\* C35: a send that got a reply shows the 'no valid reply' notice exactly
\* when the exchange delivered no text; a reply text that is not empty is
\* what its slot shows at the end.
C35_NoticeIffNoText ==
    \A e \in Exchanges :
       LET f == ex[e]
           delivered == IF f.path = "stream" THEN f.fullResponse
                        ELSE IF f.path = "json" THEN FirstReplyField(ParsedReply(f))
                        ELSE f.resp.body
       IN (f.caller = "send" /\ f.pc = "done" /\ f.outcome.kind = "ok")
          => /\ dom[f.responseId].content = <<NoValidReply>> <=> delivered = <<>>
             /\ delivered /= <<>> => dom[f.responseId].content = delivered

\* The chain's last fetch got a 2xx response and every fetch before it
\* was rejected.
SucceededAtLast(f) ==
    /\ f.fetches /= <<>>
    /\ f.fetches[Len(f.fetches)].kind = "response"
    /\ f.fetches[Len(f.fetches)].ok
    /\ \A i \in 1..(Len(f.fetches) - 1) : f.fetches[i].kind = "reject"

\* C36: a chain whose attempts 1..k-1 failed with network errors and
\* whose attempt k got the reply has called the transport k times and
\* slept k-1 times, k <= maxRetries; its result is the text of attempt k
\* and no error of an earlier attempt; the attempt counter of a chain is
\* always within 1..maxRetries.
C36_SucceedsAtAttemptK ==
    \A e \in Exchanges :
       LET f == ex[e]
           k == Len(f.fetches)
       IN f.caller = "retry"
          => /\ f.attempt \in 1..f.maxRetries
             /\ (f.pc = "done" /\ SucceededAtLast(f))
                => /\ f.calls = k
                   /\ f.attempt = k
                   /\ Len(f.sleeps) = k - 1
                   /\ Len(f.errors) = k - 1
                   /\ \A i \in 1..(k - 1) : IsNetworkError(f.errors[i])
                   /\ f.outcome = [kind |-> "ok", text |-> <<"ok">>, error |-> NoError]

C36_Witness ==
    \E e \in Exchanges :
       /\ ex[e].caller = "retry" /\ ex[e].pc = "done" /\ SucceededAtLast(ex[e])
       /\ ex[e].maxRetries = 3 /\ ex[e].calls = 3
       /\ ex[e].sleeps = <<1000, 2000>>
       /\ ex[e].outcome.text = <<"ok">>

\* C37: an update() whose options carry no apiSettings object leaves
\* apiUrl, apiKey and authType as they were, and no update() changes the
\* message list or a message slot: a step that changes the settings
\* changes nothing else.
C37_UpdateFrame ==
    [][/\ Update(FALSE, InitSettings) => apiSettings' = apiSettings
       /\ apiSettings' /= apiSettings
          => /\ messages' = messages
             /\ dom' = dom
             /\ ex' = ex]_vars

\* The settings were updated while a send was waiting for its reply: the
\* slots exist and the settings are no longer those of the send.
C37_Witness ==
    /\ ex[1].pc = "fetch"
    /\ ex[1].config /= apiSettings
    /\ Len(messages) = 2
    /\ dom[ex[1].responseId].content = <<Connecting>>

\* C38: a send with empty or white-space-only input adds no message and
\* starts no exchange, hence no network call; a send with any other input
\* appends the trimmed text as the user message and clears the input
\* field in the step that issues the transport call.
C38_SendFrame ==
    [][\A e \in Exchanges :
          /\ Trim(input) = <<>>
             => /\ ex[e].pc = "idle" => ex'[e] = ex[e]
                /\ ex'[e].calls = ex[e].calls
                /\ Len(messages') = Len(messages)
                /\ Len(dom') = Len(dom)
          /\ (ex[e].pc = "idle" /\ ex'[e].pc /= "idle" /\ ex'[e].caller = "send")
             => /\ Trim(input) /= <<>>
                /\ input' = <<>>
                /\ Len(messages') = Len(messages) + 2
                /\ messages'[Len(messages) + 1] =
                      [id |-> Len(messages) + 1, text |-> Trim(input), isUser |-> TRUE]
                /\ dom'[Len(dom) + 1].content = Trim(input)
                /\ dom'[Len(dom) + 1].isUser
                /\ ex'[e].message = Trim(input)
                /\ ex'[e].calls <= 1]_vars

\* The input ' hi ' was sent: the user message is 'hi', the input field
\* is empty and the request is in flight.
C38_Witness ==
    /\ ex[1].pc = "fetch" /\ ex[1].calls = 1
    /\ ex[1].message = <<"hi">>
    /\ messages[1].text = <<"hi">> /\ messages[1].isUser
    /\ input = <<>>

\* Every exchange has terminated or was never started.
AllTerminated == \A e \in Exchanges : ex[e].pc \in {"idle", "done"}

\* The sends made so far.
Sent == {e \in Exchanges : ex[e].pc /= "idle" /\ ex[e].caller = "send"}

\* C39: when all exchanges have terminated, the message list holds for
\* the k-th send its user message followed by its assistant message, the
\* reply or the error, and nothing else; no assistant message is still
\* the loading placeholder; the list and the displayed slots hold the same
\* ids, in the same order, with the same texts.
C39_OnePairPerSend ==
    AllTerminated
    => /\ Len(messages) = 2 * Cardinality(Sent)
       /\ Sent = 1..Cardinality(Sent)
       /\ \A e \in Sent :
             /\ ex[e].responseId = 2 * e
             /\ messages[2 * e - 1].isUser
             /\ messages[2 * e - 1].text = ex[e].message
             /\ ~messages[2 * e].isUser
             /\ messages[2 * e].text = FinalShown(ex[e])
             /\ messages[2 * e].text /= <<Connecting>>
       /\ Len(dom) = Len(messages)
       /\ \A i \in 1..Len(messages) :
             /\ dom[i].id = messages[i].id
             /\ dom[i].isUser = messages[i].isUser
             /\ dom[i].content = messages[i].text
       /\ \A i, j \in 1..Len(messages) : messages[i].id = messages[j].id => i = j

\* Two sends that overlapped have both terminated, the first with its
\* streamed reply, the second with the network error.
C39_Witness ==
    /\ AllTerminated
    /\ Sent = {1, 2}
    /\ ex[1].outcome.kind = "ok" /\ ex[1].path = "stream"
    /\ ex[2].outcome.kind = "err"
    /\ Len(ex[2].fetches) = 1 /\ Len(ex[1].frags) = 2
    /\ messages[4].text = ErrorText(ex[2].outcome.error)

\* The kind of result message a connection test ends with, from how its
\* probe went.
TestResultAtom(f) ==
    LET probe == f.fetches[Len(f.fetches)] IN
    IF probe.kind = "response"
    THEN IF probe.ok THEN {TestSucceeded} ELSE {ApiReturnedError}
    ELSE IF probe.kind = "abort" THEN {ConnectionTimedOut}
    ELSE {NetFail, CorsBlocked, RequestConfigError, TestFailed}

\* C40: a connection test with an empty endpoint adds one notice and
\* makes no network call.  With an endpoint, the preflight is sent exactly
\* when an auth mode is set and, however it went, the probe is sent after
\* it; however the probe went (2xx, non-2xx, abort at the deadline,
\* network failure), the finished test has removed its 'testing'
\* placeholder and added exactly one result message, of the probe's kind.
C40_TestConnectionOutcome ==
    \A e \in Exchanges :
       LET f == ex[e]
           preflights == IF f.config.authType /= "None" THEN 1 ELSE 0
       IN f.caller = "test"
          => /\ f.config.apiUrl = ""
                => /\ f.pc = "done" /\ f.calls = 0 /\ f.fetches = <<>>
                   /\ Len(messages) = 1 /\ Len(dom) = 1
                   /\ messages[1].text = <<ConfigureInSettings>>
             /\ f.config.apiUrl /= ""
                => /\ f.pc = "preflight"
                      <=> (preflights = 1 /\ f.calls = 1 /\ f.fetches = <<>>)
                   /\ f.pc /= "preflight"
                      => /\ f.calls = preflights + 1
                         /\ f.url = f.config.apiUrl
                         /\ f.timer /= "none"
                   /\ f.pc \in {"preflight", "probe"}
                      => /\ Len(messages) = 1
                         /\ messages[1].text = <<TestingConnection>>
                         /\ dom[1].content = <<TestingConnection>>
                   /\ f.pc = "testerrtext" => messages = <<>> /\ dom = <<>>
                   /\ f.pc = "done"
                      => /\ Len(f.fetches) = preflights + 1
                         /\ Len(messages) = 1 /\ Len(dom) = 1
                         /\ messages[1].text /= <<TestingConnection>>
                         /\ messages[1].text = f.outcome.text
                         /\ dom[1].content = f.outcome.text
                         /\ ~messages[1].isUser
                         /\ f.outcome.text[1] \in TestResultAtom(f)

\* The preflight was rejected, the probe was sent all the same and got a
\* 2xx response: the placeholder is gone and the success message is shown.
C40_Witness ==
    \E e \in Exchanges :
       /\ ex[e].caller = "test" /\ ex[e].pc = "done"
       /\ Len(ex[e].fetches) = 2
       /\ ex[e].fetches[1].kind = "reject"
       /\ ex[e].fetches[2].kind = "response" /\ ex[e].fetches[2].ok
       /\ Len(messages) = 1
       /\ messages[1].text[1] = TestSucceeded

====
